---- MODULE Spec2Model ----
(***************************************************************************)
(* Model of the export pipeline of src/exporter.py (class Exporter).       *)
(*                                                                         *)
(* One export_current_view request for a raster format is modelled as a    *)
(* state machine.  Every call of an external collaborator (Earth Engine    *)
(* getInfo, geemap.ee_export_image, rasterio merge, xarray conversion,     *)
(* ee.batch.Export ... start) is one action whose result is chosen         *)
(* nondeterministically among the results the call can have: it returns,   *)
(* it raises, or it returns without having created its file.               *)
(*                                                                         *)
(* Paths are sequences of path segments; "a/b".split('/') is <<"a","b">>,  *)
(* an absolute POSIX path starts with the empty segment.                   *)
(***************************************************************************)
EXTENDS Integers, Sequences, FiniteSets, TLC

(***************************************************************************)
(* Program constants                                                       *)
(***************************************************************************)
max_pixels_no_chunk == 5000000

num_chunks_x == 2

num_chunks_y == 2

export_root == "Climate_Analysis_Tool_Exports"

local_export_dir == <<"", "home", "climate_tool_exports">>

(***************************************************************************)
(* Bounds of the model                                                     *)
(***************************************************************************)
\* number of time.sleep(2) polls of the chunk wait loop that are told apart
MaxSleeps == 2

(***************************************************************************)
(* Inputs                                                                  *)
(***************************************************************************)
Formats == {"GeoTIFF", "NetCDF"}

\* panel_data['dataset'] and panel_data['index'] (default 'unknown')
Datasets == {"ERA5", "era5", "unknown", "MyData"}

Indices == {"SPI", "unknown"}

\* image.getInfo()['bands'] as a sequence of band dimensions
BandChoices ==
    { <<>>,
      << <<1000, 1000>> >>,
      << <<2500, 2000>> >>,
      << <<2500, 2000>>, <<1, 1>> >>,
      << <<4000, 2000>> >> }

\* image.geometry().bounds().area() / 1e6, used when there are no bands
AreaChoices == {100, 1250000, 1250001, 2000000}

export_name == "exp"

(***************************************************************************)
(* String helpers: str.lower, str.upper and str.replace on the tokens the  *)
(* model uses                                                              *)
(***************************************************************************)
Lower(s) ==
    CASE s \in {"unknown", "Unknown", "UNKNOWN"} -> "unknown"
      [] s \in {"ERA5", "era5"} -> "era5"
      [] s \in {"PRISM", "prism"} -> "prism"
      [] s \in {"DAYMET", "daymet"} -> "daymet"
      [] s = "MyData" -> "mydata"
      [] s = "SPI" -> "spi"
      [] s = "GeoTIFF" -> "geotiff"
      [] OTHER -> s

Upper(s) ==
    CASE s \in {"unknown", "Unknown", "UNKNOWN"} -> "UNKNOWN"
      [] s \in {"ERA5", "era5"} -> "ERA5"
      [] s \in {"PRISM", "prism"} -> "PRISM"
      [] s \in {"DAYMET", "daymet"} -> "DAYMET"
      [] s = "MyData" -> "MYDATA"
      [] s = "home" -> "HOME"
      [] s = "climate_tool_exports" -> "CLIMATE_TOOL_EXPORTS"
      [] s = "temp" -> "TEMP"
      [] OTHER -> s

\* seg.replace("unknown", "climate_data"), case sensitive
ReplaceUnknown(seg) == IF seg = "unknown" THEN "climate_data" ELSE seg

\* the segments of a sequence that are not empty
RECURSIVE NonEmptyParts(_)
NonEmptyParts(parts) ==
    IF parts = <<>> THEN <<>>
    ELSE IF Head(parts) = "" THEN NonEmptyParts(Tail(parts))
         ELSE <<Head(parts)>> \o NonEmptyParts(Tail(parts))

DefaultCategory(format_type) ==
    IF format_type = "GeoTIFF" THEN "raster_data"
    ELSE IF format_type = "CSV" THEN "tabular_data"
    ELSE "climate_data"

StandardDirs == {"ERA5", "PRISM", "DAYMET", "general", "Custom"}

\* parts after "Fix dataset name (first part)"
FixDataset(parts) ==
    IF Len(parts) = 0 THEN parts
    ELSE LET p0 == IF Lower(parts[1]) = "unknown" THEN "general" ELSE parts[1]
             ps == [parts EXCEPT ![1] = p0]
         IN  IF p0 \in StandardDirs THEN ps
             ELSE IF Upper(p0) \in {"ERA5", "PRISM", "DAYMET"}
                  THEN [ps EXCEPT ![1] = Upper(p0)]
                  ELSE <<"Custom", p0>>

\* parts after "Fix index name (second part)"
FixIndex(format_type, parts) ==
    IF Len(parts) > 1 /\ Lower(parts[2]) = "unknown"
    THEN [parts EXCEPT ![2] = DefaultCategory(format_type)]
    ELSE parts

\* parts after "Ensure we have at least two parts"
EnsureTwoParts(format_type, parts) ==
    IF Len(parts) = 0 THEN <<"general", "data">>
    ELSE IF Len(parts) = 1 THEN Append(parts, DefaultCategory(format_type))
    ELSE parts

\* the directory _get_export_path creates and returns the file in
ExportDir(format_type, folder_parts) ==
    local_export_dir \o <<format_type>> \o
    NonEmptyParts(EnsureTwoParts(format_type,
                      FixIndex(format_type, FixDataset(folder_parts))))

\* _get_export_path: a file is a directory and a file name
_get_export_path(format_type, folder_parts, name, extension) ==
    [dir |-> ExportDir(format_type, folder_parts),
     file |-> name \o "." \o extension]

(***************************************************************************)
(* Files, outcomes and status events                                       *)
(***************************************************************************)
NoFile == [dir |-> <<>>, file |-> ""]

JoinFile(dir, name) == [dir |-> dir, file |-> name]

\* the strings the export functions return, by their fixed text
Outcome(kind, path, completed, total, folder) ==
    [kind |-> kind, path |-> path, completed |-> completed,
     total |-> total, folder |-> folder]

NoOutcome == Outcome("none", NoFile, 0, 0, <<>>)

\* "Error: No data available for export"
NoDataOutcome == Outcome("NoData", NoFile, 0, 0, <<>>)

\* "GeoTIFF export completed successfully. File saved to: {path} (.. MB)"
GeoTIFFCompleted(path) == Outcome("GeoTIFFCompleted", path, 0, 0, <<>>)

\* "Chunked export partially successful. {k} of {n} chunks exported to: {dir}"
ChunkedPartial(k, n, dir) == Outcome("ChunkedPartial", NoFile, k, n, dir)

\* "GeoTIFF export to Google Drive started. The file will be saved to .."
GeoTIFFDriveStarted(folder) ==
    Outcome("GeoTIFFDriveStarted", NoFile, 0, 0, folder)

\* "NetCDF export completed successfully. File saved to: {path} (.. MB)"
NetCDFCompleted(path) == Outcome("NetCDFCompleted", path, 0, 0, <<>>)

\* "NetCDF export to Google Drive started. The file will be saved to .."
NetCDFDriveStarted(folder) ==
    Outcome("NetCDFDriveStarted", NoFile, 0, 0, folder)

\* "Export failed: {e}"
ExportFailed == Outcome("ExportFailed", NoFile, 0, 0, <<>>)

\* a status_callback message: its fixed text and the numbers it formats
Event(msg, a, b) == [msg |-> msg, a |-> a, b |-> b]

(***************************************************************************)
(* Decisions of the single-raster export                                   *)
(***************************************************************************)
RECURSIVE SumBands(_)
\* size_estimate += dimensions[0] * dimensions[1] over the bands
SumBands(bands) ==
    IF bands = <<>> THEN 0
    ELSE Head(bands)[1] * Head(bands)[2] + SumBands(Tail(bands))

\* the size estimate: exact from the bands, else area_km2 * 4
SizeEstimate(bands, area_km2) ==
    IF bands # <<>> THEN SumBands(bands) ELSE area_km2 * 4

\* needs_chunking = size_estimate > self.max_pixels_no_chunk
NeedsChunking(size) == size > max_pixels_no_chunk

\* variant: a size check that fails lets the direct export go ahead
NeedsChunkingOnError_direct == FALSE

\* except: needs_chunking = True
NeedsChunkingOnError == TRUE

\* variant: the size check is ignored and the direct export always runs
GeotiffTierAfterEstimate_direct(needs) == "G_direct"

\* if needs_chunking: chunked export, else the direct export
GeotiffTierAfterEstimate(needs) == IF needs THEN "C_setup" ELSE "G_direct"

\* variant: a failed direct export goes on with the chunked export
GeotiffDirectFailureTarget_chunked == "C_setup"

\* the except clause of the direct GeoTIFF export: the Drive export
GeotiffDirectFailureTarget == "G_drive"

\* variant: the return is missing and the code runs on into the Drive export
GeotiffDirectSuccessTarget_fallthrough == "G_drive"

\* the return statement of the direct GeoTIFF export when the file is there
GeotiffDirectSuccessTarget == "done"

\* if chunk_files and any(os.path.exists(f) for f in chunk_files)
AnyChunkExists(files, onDisk) ==
    /\ files # <<>>
    /\ \E k \in 1..Len(files) : files[k] \in onDisk

\* variant: the partial message reports every chunk as exported
MergeFailureResult_total(k, n, dir) == ChunkedPartial(n, n, dir)

\* what the chunked export returns when the merge raises
MergeFailureResult(k, n, dir) == ChunkedPartial(k, n, dir)

\* variant: the success message names the file in the chunk directory
MergeSuccessResult_scratch(path, k, n) ==
    GeoTIFFCompleted([dir |-> local_export_dir \o <<"temp">>, file |-> path.file])

\* what the chunked export returns when the merge succeeds
MergeSuccessResult(path, k, n) == GeoTIFFCompleted(path)

\* the temp directory of the chunks
ChunkDir(name) == local_export_dir \o <<"temp", name \o "_chunks">>

\* chunk_filename
ChunkFile_column(name, ci, cj) ==
    JoinFile(ChunkDir(name), name \o "_chunk_" \o ToString(ci) \o ".tif")

ChunkFile(name, ci, cj) ==
    JoinFile(ChunkDir(name),
             name \o "_chunk_" \o ToString(ci) \o "_" \o ToString(cj) \o ".tif")

(***************************************************************************)
(* State                                                                   *)
(***************************************************************************)
VARIABLES
    pc,               \* position of the request in the code
    format_type,      \* argument of export_current_view
    hasData,          \* panel_data.get('data') is not None
    has_cb,           \* a status_callback was supplied
    folder_name,      \* f"{dataset}/{index}" split into its segments
    needs_chunking,   \* result of the size check
    size_estimate,    \* the estimate, -1 when it could not be computed
    site,             \* the call site the running Drive export was called from
    chunk_name,       \* export_name argument of the chunked export
    chunk_folder,     \* folder_name argument of the chunked export
    i, j,             \* loop variables of the chunk sweep
    chunks_completed,
    chunk_files,
    sleeps,           \* polls of the wait loop for the current chunk file
    disk,             \* files on the local disk
    dirs,             \* scratch directories on the local disk
    driveJobs,        \* remote export tasks started, in order
    geotiff_result,   \* what the chunked export returned to the NetCDF export
    outcome,          \* what export_current_view returned
    tier,             \* the tier whose return statement made the outcome
    tiers,            \* the tiers entered, in order
    calls,            \* number of calls of each collaborator
    events            \* messages given to status_callback, in order

\* state of export_all_data, of the call of _get_export_path under study and
\* of the table export
VARIABLES
    hasState,           \* the state argument of export_all_data is not empty
    time_range,         \* state['time_range'] = (start_year, end_year)
    cpu_count,          \* mp.cpu_count()
    watch,              \* the first or the last year of the range, whose
                        \* handling is recorded
    hist,               \* what happened to the watched year
    pending,            \* years of the running batch not yet given to a worker
    inflight,           \* years a pool worker is exporting
    results,            \* (success, year) pairs the workers returned
    year,               \* loop variable of the sequential loops
    successful_exports,
    failed_exports,
    individual_files,   \* (year, file) pairs of the NetCDF export
    task_count,         \* Drive tasks started by the per-year Drive export
    combined,           \* years in the multi-year NetCDF file, in order
    path_args,          \* arguments of the call of _get_export_path
    path_result,        \* what it returned
    num_rows,           \* len(temporal_data)
    csv_files,          \* table files written, in order
    csv_index,          \* rows of the index file
    csv_exporter,       \* the table exporter that runs
    grid_bounds,        \* (min_x, min_y, max_x, max_y) of the image bounds
    grid_chunks         \* the rectangles of the chunk geometries, in order

allYearsVars == <<hasState, time_range, cpu_count, watch, hist, pending,
                  inflight, results, year, successful_exports,
                  failed_exports, individual_files, task_count, combined>>

pathVars == <<path_args, path_result>>

csvVars == <<num_rows, csv_files, csv_index, csv_exporter>>

gridVars == <<grid_bounds, grid_chunks>>

singleVars == <<hasData, needs_chunking, size_estimate, site, chunk_name,
                chunk_folder, j, chunks_completed, chunk_files, sleeps, dirs,
                geotiff_result, tier, tiers, calls>>

vars == <<pc, format_type, hasData, has_cb, folder_name, needs_chunking,
          size_estimate, site, chunk_name, chunk_folder, i, j,
          chunks_completed, chunk_files, sleeps, disk, dirs, driveJobs,
          geotiff_result, outcome, tier, tiers, calls, events,
          allYearsVars, pathVars, csvVars, gridVars>>

inputs == <<format_type, hasData, has_cb, folder_name>>

chunkVars == <<chunk_name, chunk_folder, i, j, chunks_completed, chunk_files,
               sleeps>>

NoCalls == [transfer |-> 0, transferOk |-> 0, chunkTransfer |-> 0,
            merge |-> 0, mergeRaised |-> 0, convert |-> 0,
            convertRaised |-> 0, submit |-> 0, submitRaised |-> 0]

Emit_silent(evs, e) == evs

Emit(evs, e) == IF has_cb THEN Append(evs, e) ELSE evs

Called(what) == [calls EXCEPT ![what] = @ + 1]

\* a call that raised, or a transfer that created its file
CalledWith(what, how) == [calls EXCEPT ![what] = @ + 1, ![how] = @ + 1]

\* of the watched year: results of _get_data_for_year, transfers and counts
\* in the per-year export, and what its pass of the Drive loop met; of all
\* years: passes of the Drive loop without an image and with an exception
NoHist == [nulls |-> 0, data |-> 0, transfers |-> 0, succeeded |-> 0,
           failed |-> 0, watchDrive |-> <<>>, driveNulls |-> 0,
           driveRaised |-> 0]

NoPathArgs == [format_type |-> "", folder_name |-> <<>>, export_name |-> "",
               extension |-> ""]

\* export_all_data is not running
AllYearsIdle ==
    /\ hasState = FALSE
    /\ time_range = <<0, 0>>
    /\ cpu_count = 0
    /\ watch = 0
    /\ hist = NoHist
    /\ pending = {}
    /\ inflight = {}
    /\ results = {}
    /\ year = 0
    /\ successful_exports = 0
    /\ failed_exports = 0
    /\ individual_files = <<>>
    /\ task_count = 0
    /\ combined = <<>>

GridIdle ==
    /\ grid_bounds = <<0, 0, 0, 0>>
    /\ grid_chunks = <<>>

PathIdle ==
    /\ path_args = NoPathArgs
    /\ path_result = NoFile

CsvIdle ==
    /\ num_rows = 0
    /\ csv_files = <<>>
    /\ csv_index = <<>>
    /\ csv_exporter = "none"

\* the variables only export_current_view works with
SingleIdle ==
    /\ hasData = FALSE
    /\ needs_chunking = FALSE
    /\ size_estimate = 0
    /\ site = "none"
    /\ chunk_name = ""
    /\ chunk_folder = <<>>
    /\ j = 0
    /\ chunks_completed = 0
    /\ chunk_files = <<>>
    /\ sleeps = 0
    /\ dirs = {}
    /\ geotiff_result = NoOutcome
    /\ tier = "none"
    /\ tiers = <<>>
    /\ calls = NoCalls

Init ==
    /\ GridIdle
    /\ AllYearsIdle
    /\ PathIdle
    /\ CsvIdle
    /\ pc = "start"
    /\ format_type \in Formats
    /\ hasData \in BOOLEAN
    /\ has_cb \in BOOLEAN
    /\ folder_name \in {<<d, x>> : d \in Datasets, x \in Indices}
    /\ needs_chunking = FALSE
    /\ size_estimate = 0
    /\ site = "none"
    /\ chunk_name = ""
    /\ chunk_folder = <<>>
    /\ i = 0
    /\ j = 0
    /\ chunks_completed = 0
    /\ chunk_files = <<>>
    /\ sleeps = 0
    /\ disk = {}
    /\ dirs = {}
    /\ driveJobs = <<>>
    /\ geotiff_result = NoOutcome
    /\ outcome = NoOutcome
    /\ tier = "none"
    /\ tiers = <<>>
    /\ calls = NoCalls
    /\ events = <<>>

(***************************************************************************)
(* export_current_view                                                     *)
(***************************************************************************)
\* the folder_name _export_geotiff_enhanced works with after its
\* replacement of "unknown"
GeotiffFolderName == [k \in 1..Len(folder_name) |-> ReplaceUnknown(folder_name[k])]

\* local_folder of _export_geotiff_enhanced
GeotiffLocalFolder == local_export_dir \o <<"GeoTIFF">> \o GeotiffFolderName

\* local_file_path of _export_geotiff_enhanced
GeotiffLocalFilePath == JoinFile(GeotiffLocalFolder, export_name \o ".tif")

\* local_file_path of _export_netcdf_enhanced
NetcdfLocalFilePath == _get_export_path("NetCDF", folder_name, export_name, "nc")

ExportCurrentView ==
    /\ UNCHANGED <<allYearsVars, pathVars, csvVars, gridVars>>
    /\ pc = "start"
    /\ IF ~hasData
       THEN /\ pc' = "done"
            /\ outcome' = NoDataOutcome
            /\ events' = Emit(events, Event("Starting export of current view data", 0, 0))
       ELSE /\ pc' = IF format_type = "GeoTIFF" THEN "G_estimate" ELSE "N_estimate"
            /\ outcome' = outcome
            /\ events' = Emit(Emit(events,
                              Event("Starting export of current view data", 0, 0)),
                              Event("Setting up export, checking image size", 0, 0))
    /\ UNCHANGED <<inputs, needs_chunking, size_estimate, site, chunkVars,
                   disk, dirs, driveJobs, geotiff_result, tier, tiers, calls>>

(***************************************************************************)
(* _export_geotiff_enhanced                                                *)
(***************************************************************************)
\* the size check; r = "raise" when getInfo raises
GeotiffEstimate ==
    /\ UNCHANGED <<allYearsVars, pathVars, csvVars, gridVars>>
    /\ pc = "G_estimate"
    /\ \E r \in {"ok", "raise"}, bands \in BandChoices, area \in AreaChoices :
         LET size == IF r = "ok" THEN SizeEstimate(bands, area) ELSE -1
             needs == IF r = "ok" THEN NeedsChunking(size)
                      ELSE NeedsChunkingOnError
         IN  /\ size_estimate' = size
             /\ needs_chunking' = needs
             /\ pc' = GeotiffTierAfterEstimate(needs)
             /\ events' = Emit(events,
                    IF needs
                    THEN Event("Large image detected, using spatial chunking", 0, 0)
                    ELSE Event("Image size acceptable, exporting directly", 0, 0))
             \* arguments of the call of _chunked_geotiff_local_export
             /\ chunk_name' = IF needs THEN export_name ELSE chunk_name
             /\ chunk_folder' = IF needs THEN GeotiffLocalFolder ELSE chunk_folder
    /\ UNCHANGED <<inputs, site, i, j, chunks_completed, chunk_files, sleeps,
                   disk, dirs, driveJobs, geotiff_result, outcome, tier,
                   tiers, calls>>

\* the direct export: r = "pre" when a getInfo before the transfer raises,
\* "raise" when geemap.ee_export_image raises, "nofile" when it returns and
\* the file is not there, "file" when the file is there
GeotiffDirect ==
    /\ UNCHANGED <<allYearsVars, pathVars, csvVars, gridVars>>
    /\ pc = "G_direct"
    /\ tiers' = Append(tiers, "Direct")
    /\ \E r \in {"pre", "raise", "nofile", "file"} :
         /\ calls' = IF r = "pre" THEN calls
                     ELSE IF r = "file" THEN CalledWith("transfer", "transferOk")
                     ELSE Called("transfer")
         /\ IF r = "file"
            THEN /\ disk' = disk \cup {GeotiffLocalFilePath}
                 /\ events' = Emit(events, Event("Downloading GeoTIFF to local file", 0, 0))
                 /\ outcome' = GeoTIFFCompleted(GeotiffLocalFilePath)
                 /\ tier' = "Direct"
                 /\ pc' = GeotiffDirectSuccessTarget
                 /\ site' = site
            ELSE /\ disk' = disk
                 /\ events' = Emit(
                        IF r \in {"pre", "raise"} THEN events
                        ELSE Emit(events, Event("Downloading GeoTIFF to local file", 0, 0)),
                        Event("Local export failed. Trying Google Drive export", 0, 0))
                 /\ outcome' = outcome
                 /\ tier' = tier
                 /\ pc' = GeotiffDirectFailureTarget
                 /\ site' = "G_inner"
                 
    /\ UNCHANGED <<inputs, needs_chunking, size_estimate, chunkVars, dirs,
                   driveJobs, geotiff_result>>

(***************************************************************************)
(* Returns and exception handlers                                          *)
(***************************************************************************)
\* the call sites of the two Drive exports inside the chunked export
ChunkerSites == {"C_nochunk", "C_outer"}

\* the except clause that catches an exception raised by a Drive export
\* called at site s: the site of the Drive export that handler calls, or
\* "top" when it reaches the except clause of export_current_view
HandlerOf(s) ==
    CASE s = "G_inner" -> "G_outer"
      [] s = "G_outer" -> "top"
      [] s = "C_nochunk" -> "C_outer"
      [] s = "C_outer" -> IF format_type = "GeoTIFF" THEN "G_outer" ELSE "N_outer"
      [] s \in {"N_chunkfail", "N_conv", "N_direct"} -> "N_outer"
      [] OTHER -> "top"

\* the Drive export that is called at a site
DriveOf(s) == IF s \in {"N_chunkfail", "N_conv", "N_direct", "N_outer"}
              THEN "N_drive" ELSE "G_drive"

\* the message of the except clause that calls the Drive export at site s
HandlerEvent(s) ==
    CASE s = "G_outer" -> Event("Error during export process. Falling back to Google Drive", 0, 0)
      [] s = "C_outer" -> Event("Error during chunked export. Falling back to Google Drive", 0, 0)
      [] s = "N_outer" -> Event("Error during NetCDF export process. Falling back to Google Drive", 0, 0)
      [] OTHER -> Event("Export failed", 0, 0)

\* folder_name argument of the Drive export called at site s
DriveFolderArg(s) ==
    IF s \in ChunkerSites THEN chunk_folder
    ELSE IF s \in {"G_inner", "G_outer"} THEN GeotiffFolderName
    ELSE folder_name

\* export_name argument of the Drive export called at site s
DriveNameArg(s) == IF s \in ChunkerSites THEN chunk_name ELSE export_name

\* drive_folder = f"{self.export_root}/{folder_name}"
DriveFolder(folder) == <<export_root>> \o folder

\* a started remote task
DriveJob(fileFormat, folder, name) ==
    [fileFormat |-> fileFormat, folder |-> folder, description |-> name]

(***************************************************************************)
(* _export_geotiff_to_drive                                                *)
(***************************************************************************)
\* r = "raise" when Export.image.toDrive or export_task.start raises
ExportGeotiffToDrive ==
    /\ UNCHANGED <<allYearsVars, pathVars, csvVars, gridVars>>
    /\ pc = "G_drive"
    /\ tiers' = Append(tiers, "Remote")
    /\ \E r \in {"ok", "raise"} :
         LET drive_folder == DriveFolder(DriveFolderArg(site))
             setup == Emit(events, Event("Setting up GeoTIFF export to Google Drive", 0, 0))
             result == GeoTIFFDriveStarted(drive_folder)
         IN
         IF r = "ok"
         THEN /\ calls' = Called("submit")
              /\ driveJobs' = Append(driveJobs,
                                 DriveJob("GeoTIFF", drive_folder, DriveNameArg(site)))
              /\ events' = Emit(setup, Event("GeoTIFF export to Google Drive started", 0, 0))
              /\ site' = "none"
              /\ IF site \in ChunkerSites /\ format_type = "NetCDF"
                 THEN \* the chunked export returns to _export_netcdf_enhanced
                      /\ pc' = "N_after_chunk"
                      /\ geotiff_result' = result
                      /\ UNCHANGED <<outcome, tier>>
                 ELSE /\ pc' = "done"
                      /\ outcome' = result
                      /\ tier' = "Remote"
                      /\ UNCHANGED geotiff_result
         ELSE /\ calls' = CalledWith("submit", "submitRaised")
              /\ driveJobs' = driveJobs
              /\ geotiff_result' = geotiff_result
              /\ IF HandlerOf(site) = "top"
                 THEN /\ pc' = "done"
                      /\ outcome' = ExportFailed
                      /\ tier' = "none"
                      /\ site' = "none"
                      /\ events' = Emit(setup, HandlerEvent("top"))
                 ELSE /\ pc' = DriveOf(HandlerOf(site))
                      /\ site' = HandlerOf(site)
                      /\ events' = Emit(setup, HandlerEvent(HandlerOf(site)))
                      /\ UNCHANGED <<outcome, tier>>
    /\ UNCHANGED <<inputs, needs_chunking, size_estimate, chunkVars, disk, dirs>>

(***************************************************************************)
(* _chunked_geotiff_local_export                                           *)
(***************************************************************************)
\* entry of the chunked export up to the loop: bounds, chunk directory, crs;
\* r = "raise" when one of the getInfo calls raises
ChunkedSetup ==
    /\ UNCHANGED <<allYearsVars, pathVars, csvVars, gridVars>>
    /\ pc = "C_setup"
    /\ tiers' = Append(tiers, "Chunked")
    /\ \E r \in {"ok", "raise"} :
         IF r = "ok"
         THEN /\ pc' = "C_loop"
              /\ dirs' = dirs \cup {ChunkDir(chunk_name)}
              /\ UNCHANGED <<site, events>>
         ELSE /\ pc' = "G_drive"
              /\ site' = "C_outer"
              /\ events' = Emit(events, HandlerEvent("C_outer"))
              \* the exception may come before or after os.makedirs
              /\ dirs' \in {dirs, dirs \cup {ChunkDir(chunk_name)}}
    /\ i' = 0
    /\ j' = 0
    /\ chunks_completed' = 0
    /\ chunk_files' = <<>>
    /\ sleeps' = 0
    /\ UNCHANGED <<inputs, needs_chunking, size_estimate, chunk_name,
                   chunk_folder, disk, driveJobs, geotiff_result, outcome,
                   tier, calls>>

\* total_chunks = num_chunks_x * num_chunks_y
total_chunks == num_chunks_x * num_chunks_y

\* the loop variables after the chunk (ci, cj): for i .. for j ..
NextChunk_rowmajor(ci, cj) ==
    IF ci + 1 < num_chunks_x THEN <<ci + 1, cj>>
    ELSE IF cj + 1 < num_chunks_y THEN <<0, cj + 1>>
    ELSE <<num_chunks_x, 0>>

NextChunk(ci, cj) ==
    IF cj + 1 < num_chunks_y THEN <<ci, cj + 1>> ELSE <<ci + 1, 0>>

\* one iteration of the sweep: r = "raise" when the chunk export raises,
\* "file" when the chunk file is there after it, "nofile" when it returned
\* and the file is not there
ChunkExport ==
    /\ UNCHANGED <<allYearsVars, pathVars, csvVars, gridVars>>
    /\ pc = "C_loop"
    /\ i < num_chunks_x
    /\ LET chunk_filename == ChunkFile(chunk_name, i, j)
           announced == Emit(events,
               Event("Exporting chunk", chunks_completed + 1, total_chunks))
       IN
       /\ chunk_files' = Append(chunk_files, chunk_filename)
       /\ calls' = Called("chunkTransfer")
       /\ \E r \in {"raise", "file", "nofile"} :
            CASE r = "file" ->
                   /\ disk' = disk \cup {chunk_filename}
                   /\ chunks_completed' = chunks_completed + 1
                   /\ events' = announced
                   /\ i' = NextChunk(i, j)[1]
                   /\ j' = NextChunk(i, j)[2]
                   /\ pc' = IF NextChunk(i, j)[1] < num_chunks_x
                            THEN "C_loop" ELSE "C_after"
              [] r = "raise" ->
                   /\ events' = Emit(announced, Event("Error exporting chunk", i, j))
                   /\ i' = NextChunk(i, j)[1]
                   /\ j' = NextChunk(i, j)[2]
                   /\ pc' = IF NextChunk(i, j)[1] < num_chunks_x
                            THEN "C_loop" ELSE "C_after"
                   /\ UNCHANGED <<disk, chunks_completed>>
              [] r = "nofile" ->
                   \* while not os.path.exists(chunk_filename): time.sleep(2)
                   /\ pc' = "C_wait"
                   /\ events' = announced
                   /\ UNCHANGED <<disk, chunks_completed, i, j>>
    /\ sleeps' = 0
    /\ UNCHANGED <<inputs, needs_chunking, size_estimate, site, chunk_name,
                   chunk_folder, dirs, driveJobs, geotiff_result, outcome,
                   tier, tiers>>

\* the test of the wait loop: "while not os.path.exists(chunk_filename)";
\* the file is not there and nothing creates it
ChunkWait ==
    /\ UNCHANGED <<allYearsVars, pathVars, csvVars, gridVars>>
    /\ pc = "C_wait"
    /\ ChunkFile(chunk_name, i, j) \notin disk
    /\ pc' = "C_sleep"
    /\ UNCHANGED <<inputs, needs_chunking, size_estimate, site, chunk_name,
                   chunk_folder, i, j, chunks_completed, chunk_files, sleeps,
                   disk, dirs, driveJobs, geotiff_result, outcome, tier,
                   tiers, calls, events>>

\* the body of the wait loop: time.sleep(2), and back to the test; the
\* sleeps are counted up to MaxSleeps
ChunkSleep ==
    /\ UNCHANGED <<allYearsVars, pathVars, csvVars, gridVars>>
    /\ pc = "C_sleep"
    /\ sleeps' = IF sleeps < MaxSleeps THEN sleeps + 1 ELSE sleeps
    /\ pc' = "C_wait"
    /\ UNCHANGED <<inputs, needs_chunking, size_estimate, site, chunk_name,
                   chunk_folder, i, j, chunks_completed, chunk_files, disk,
                   dirs, driveJobs, geotiff_result, outcome, tier, tiers,
                   calls, events>>

\* merged_file of the chunked export
MergedFile == _get_export_path("GeoTIFF", chunk_folder, chunk_name, "tif")

\* the chunked export returns result to its caller
ChunkerReturns(result) ==
    IF format_type = "NetCDF"
    THEN /\ pc' = "N_after_chunk"
         /\ geotiff_result' = result
         /\ UNCHANGED <<outcome, tier>>
    ELSE /\ pc' = "done"
         /\ outcome' = result
         /\ tier' = "Chunked"
         /\ UNCHANGED geotiff_result

\* after the sweep: merge when a chunk file exists, else the Drive export
ChunkedAfterSweep ==
    /\ UNCHANGED <<allYearsVars, pathVars, csvVars, gridVars>>
    /\ pc = "C_after"
    /\ IF AnyChunkExists(chunk_files, disk)
       THEN /\ pc' = "C_merge"
            /\ events' = Emit(events,
                   Event("Successfully exported chunks. Merging chunks",
                         chunks_completed, total_chunks))
            /\ site' = site
       ELSE /\ pc' = "G_drive"
            /\ events' = Emit(events,
                   Event("Chunk export failed. Falling back to Google Drive", 0, 0))
            /\ site' = "C_nochunk"
    /\ UNCHANGED <<inputs, needs_chunking, size_estimate, chunkVars, disk,
                   dirs, driveJobs, geotiff_result, outcome, tier, tiers, calls>>

\* the files of a directory
FilesIn(dir) == {f \in disk : f.dir = dir}

\* the merge: r = "raise" when opening, merging or writing raises;
\* rm tells whether shutil.rmtree(chunk_dir) removed the directory
ChunkedMerge ==
    /\ UNCHANGED <<allYearsVars, pathVars, csvVars, gridVars>>
    /\ pc = "C_merge"
    /\ \E r \in {"ok", "raise"}, rm \in BOOLEAN :
         IF r = "ok"
         THEN /\ calls' = Called("merge")
              /\ disk' = (IF rm THEN disk \ FilesIn(ChunkDir(chunk_name)) ELSE disk)
                            \cup {MergedFile}
              /\ dirs' = IF rm THEN dirs \ {ChunkDir(chunk_name)} ELSE dirs
              /\ events' = events
              /\ ChunkerReturns(MergeSuccessResult(MergedFile, chunks_completed,
                                                   total_chunks))
         ELSE /\ rm = FALSE
              /\ calls' = CalledWith("merge", "mergeRaised")
              /\ UNCHANGED <<disk, dirs>>
              /\ events' = Emit(events,
                     Event("Error merging chunks. Individual chunks available", 0, 0))
              /\ ChunkerReturns(MergeFailureResult(chunks_completed, total_chunks,
                                                   ChunkDir(chunk_name)))
    /\ UNCHANGED <<inputs, needs_chunking, size_estimate, site, chunkVars,
                   driveJobs, tiers>>

(***************************************************************************)
(* _export_netcdf_enhanced                                                 *)
(***************************************************************************)
\* if needs_chunking: the chunked GeoTIFF export, else the direct export
NetcdfTierAfterEstimate(needs) == IF needs THEN "C_setup" ELSE "N_direct"

\* variant: the test looks for "export", which every result contains
ContainsCompleted_any(result) == result.kind # "none"

\* "export completed successfully" in geotiff_result
ContainsCompleted(result) ==
    result.kind \in {"GeoTIFFCompleted", "NetCDFCompleted"}

\* the except clause of the direct NetCDF export: the Drive export
NetcdfDirectFailureTarget == "N_drive"

\* variant: the conversion error is swallowed and nothing is returned
NetcdfConversionFailureTarget_swallow == "done"

\* where the NetCDF export goes when the conversion raises
NetcdfConversionFailureTarget == "N_drive"

\* temp_geotiff_path of the direct NetCDF export
NetcdfTempGeotiffPath ==
    JoinFile(local_export_dir \o <<"temp">>, export_name \o "_temp.tif")

\* the size check, the same code as in _export_geotiff_enhanced
NetcdfEstimate ==
    /\ UNCHANGED <<allYearsVars, pathVars, csvVars, gridVars>>
    /\ pc = "N_estimate"
    /\ \E r \in {"ok", "raise"}, bands \in BandChoices, area \in AreaChoices :
         LET size == IF r = "ok" THEN SizeEstimate(bands, area) ELSE -1
             needs == IF r = "ok" THEN NeedsChunking(size)
                      ELSE NeedsChunkingOnError
         IN  /\ size_estimate' = size
             /\ needs_chunking' = needs
             /\ pc' = NetcdfTierAfterEstimate(needs)
             /\ events' = IF needs
                          THEN Emit(events,
                                 Event("Large image detected, using spatial chunking", 0, 0))
                          ELSE events
             \* arguments of the call of _chunked_geotiff_local_export
             /\ chunk_name' = IF needs THEN export_name \o "_temp" ELSE chunk_name
             /\ chunk_folder' = IF needs THEN local_export_dir \o <<"temp">>
                                ELSE chunk_folder
    /\ UNCHANGED <<inputs, site, i, j, chunks_completed, chunk_files, sleeps,
                   disk, dirs, driveJobs, geotiff_result, outcome, tier,
                   tiers, calls>>

\* the check of what the chunked export returned.  The path in a completed
\* result always ends in ".tif", so the regular expression always matches.
NetcdfAfterChunked ==
    /\ UNCHANGED <<allYearsVars, pathVars, csvVars, gridVars>>
    /\ pc = "N_after_chunk"
    /\ IF ContainsCompleted(geotiff_result)
       THEN /\ pc' = "N_convert_chunked"
            /\ events' = Emit(events, Event("Converting GeoTIFF to NetCDF format", 0, 0))
            /\ site' = site
       ELSE /\ pc' = "N_drive"
            /\ events' = events
            /\ site' = "N_chunkfail"
    /\ UNCHANGED <<inputs, needs_chunking, size_estimate, chunkVars, disk,
                   dirs, driveJobs, geotiff_result, outcome, tier, tiers, calls>>

\* the conversion of the merged GeoTIFF: r = "raise" when rasterio or xarray
\* raises; rm tells whether os.remove(temp_geotiff_path) removed the file
NetcdfConvertChunked ==
    /\ UNCHANGED <<allYearsVars, pathVars, csvVars, gridVars>>
    /\ pc = "N_convert_chunked"
    /\ \E r \in {"ok", "raise"}, rm \in BOOLEAN :
         IF r = "ok"
         THEN /\ calls' = Called("convert")
              /\ disk' = (IF rm THEN disk \ {geotiff_result.path} ELSE disk)
                            \cup {NetcdfLocalFilePath}
              /\ outcome' = NetCDFCompleted(NetcdfLocalFilePath)
              /\ tier' = "Chunked"
              /\ pc' = "done"
              /\ UNCHANGED <<events, site>>
         ELSE /\ rm = FALSE
              /\ calls' = CalledWith("convert", "convertRaised")
              /\ pc' = NetcdfConversionFailureTarget
              /\ site' = "N_conv"
              /\ events' = Emit(events,
                     Event("Error converting to NetCDF. Falling back to Google Drive export", 0, 0))
              /\ UNCHANGED <<disk, outcome, tier>>
    /\ UNCHANGED <<inputs, needs_chunking, size_estimate, chunkVars, dirs,
                   driveJobs, geotiff_result, tiers>>

\* the direct export of the temporary GeoTIFF, results as in GeotiffDirect
NetcdfDirect ==
    /\ UNCHANGED <<allYearsVars, pathVars, csvVars, gridVars>>
    /\ pc = "N_direct"
    /\ tiers' = Append(tiers, "Direct")
    /\ \E r \in {"pre", "raise", "nofile", "file"} :
         /\ calls' = IF r = "pre" THEN calls
                     ELSE IF r = "file" THEN CalledWith("transfer", "transferOk")
                     ELSE Called("transfer")
         /\ IF r = "file"
            THEN /\ disk' = disk \cup {NetcdfTempGeotiffPath}
                 /\ events' = Emit(Emit(events,
                        Event("Downloading data for NetCDF", 0, 0)),
                        Event("Converting to NetCDF format", 0, 0))
                 /\ pc' = "N_convert_direct"
                 /\ site' = site
            ELSE /\ disk' = disk
                 /\ events' = Emit(
                        IF r \in {"pre", "raise"} THEN events
                        ELSE Emit(events, Event("Downloading data for NetCDF", 0, 0)),
                        Event("Local NetCDF export failed. Trying Google Drive export", 0, 0))
                 /\ pc' = NetcdfDirectFailureTarget
                 /\ site' = "N_direct"
    /\ UNCHANGED <<inputs, needs_chunking, size_estimate, chunkVars, dirs,
                   driveJobs, geotiff_result, outcome, tier>>

\* the conversion of the directly exported GeoTIFF
NetcdfConvertDirect ==
    /\ UNCHANGED <<allYearsVars, pathVars, csvVars, gridVars>>
    /\ pc = "N_convert_direct"
    /\ \E r \in {"ok", "raise"}, rm \in BOOLEAN :
         IF r = "ok"
         THEN /\ calls' = Called("convert")
              /\ disk' = (IF rm THEN disk \ {NetcdfTempGeotiffPath} ELSE disk)
                            \cup {NetcdfLocalFilePath}
              /\ outcome' = NetCDFCompleted(NetcdfLocalFilePath)
              /\ tier' = "Direct"
              /\ pc' = "done"
              /\ UNCHANGED <<events, site>>
         ELSE /\ rm = FALSE
              /\ calls' = CalledWith("convert", "convertRaised")
              /\ pc' = NetcdfConversionFailureTarget
              /\ site' = "N_direct"
              /\ events' = Emit(events,
                     Event("Local NetCDF export failed. Trying Google Drive export", 0, 0))
              /\ UNCHANGED <<disk, outcome, tier>>
    /\ UNCHANGED <<inputs, needs_chunking, size_estimate, chunkVars, dirs,
                   driveJobs, geotiff_result, tiers>>

(***************************************************************************)
(* _export_netcdf_to_drive                                                 *)
(***************************************************************************)
ExportNetcdfToDrive ==
    /\ UNCHANGED <<allYearsVars, pathVars, csvVars, gridVars>>
    /\ pc = "N_drive"
    /\ tiers' = Append(tiers, "Remote")
    /\ \E r \in {"ok", "raise"} :
         LET drive_folder == DriveFolder(DriveFolderArg(site))
             setup == Emit(events, Event("Setting up NetCDF export to Google Drive", 0, 0))
         IN
         IF r = "ok"
         THEN /\ calls' = Called("submit")
              /\ driveJobs' = Append(driveJobs,
                                 DriveJob("NetCDF", drive_folder, DriveNameArg(site)))
              /\ events' = Emit(setup, Event("NetCDF export to Google Drive started", 0, 0))
              /\ site' = "none"
              /\ pc' = "done"
              /\ outcome' = NetCDFDriveStarted(drive_folder)
              /\ tier' = "Remote"
         ELSE /\ calls' = CalledWith("submit", "submitRaised")
              /\ driveJobs' = driveJobs
              /\ IF HandlerOf(site) = "top"
                 THEN /\ pc' = "done"
                      /\ outcome' = ExportFailed
                      /\ tier' = "none"
                      /\ site' = "none"
                      /\ events' = Emit(setup, HandlerEvent("top"))
                 ELSE /\ pc' = DriveOf(HandlerOf(site))
                      /\ site' = HandlerOf(site)
                      /\ events' = Emit(setup, HandlerEvent(HandlerOf(site)))
                      /\ UNCHANGED <<outcome, tier>>
    /\ UNCHANGED <<inputs, needs_chunking, size_estimate, chunkVars, disk, dirs,
                   geotiff_result>>

(***************************************************************************)
(* Specification                                                           *)
(***************************************************************************)
Next ==
    \/ ExportCurrentView
    \/ GeotiffEstimate
    \/ GeotiffDirect
    \/ ExportGeotiffToDrive
    \/ ChunkedSetup
    \/ ChunkExport
    \/ ChunkWait
    \/ ChunkSleep
    \/ ChunkedAfterSweep
    \/ ChunkedMerge
    \/ NetcdfEstimate
    \/ NetcdfAfterChunked
    \/ NetcdfConvertChunked
    \/ NetcdfDirect
    \/ NetcdfConvertDirect
    \/ ExportNetcdfToDrive

Spec == Init /\ [][Next]_vars

TypeOK ==
    /\ pc \in {"start", "G_estimate", "G_direct", "G_drive", "C_setup",
               "C_loop", "C_wait", "C_sleep", "C_after", "C_merge",
               "N_estimate",
               "N_after_chunk", "N_convert_chunked", "N_direct",
               "N_convert_direct", "N_drive", "done"}
    /\ i \in 0..num_chunks_x
    /\ j \in 0..(num_chunks_y - 1)
    /\ chunks_completed \in 0..total_chunks
    /\ Len(chunk_files) <= total_chunks
    /\ sleeps \in 0..MaxSleeps

(***************************************************************************)
(* Properties of the single-raster export                                  *)
(***************************************************************************)
Range(seq) == {seq[k] : k \in 1..Len(seq)}

RECURSIVE Count(_, _)
Count(seq, x) ==
    IF seq = <<>> THEN 0
    ELSE (IF Head(seq) = x THEN 1 ELSE 0) + Count(Tail(seq), x)

SizeKnownSmall == size_estimate \in 0..max_pixels_no_chunk

MergeSucceeded == calls.merge = 1 /\ calls.mergeRaised = 0

MergeFailed == calls.mergeRaised > 0

ConversionFailed == calls.convertRaised > 0

ThePartialOutcome ==
    ChunkedPartial(chunks_completed, total_chunks, ChunkDir(chunk_name))

TheMergingEvent ==
    Event("Successfully exported chunks. Merging chunks",
          chunks_completed, total_chunks)

\* the local raster file a NetCDF request converts
RasterFileOfRequest ==
    IF needs_chunking THEN MergedFile ELSE NetcdfTempGeotiffPath

\* C1 (as claimed): every tier is entered at most once per request and at
\* most one remote job submission is attempted, whatever fails.
C1_EachTierAtMostOnce ==
    /\ \A t \in {"Direct", "Chunked", "Remote"} : Count(tiers, t) <= 1
    /\ calls.submit <= 1

\* C2 (as claimed): estimate at or below the threshold and a successful
\* whole-region transfer end every single-raster export in tier Direct, with
\* the chunker never invoked and no remote job submitted.
C2_DirectSuccessEndsDirect ==
    (pc = "done" /\ SizeKnownSmall /\ calls.transferOk = 1) =>
        /\ tier = "Direct"
        /\ "Chunked" \notin Range(tiers)
        /\ calls.chunkTransfer = 0
        /\ calls.submit = 0

\* C2 (amended): estimate at or below the threshold and a successful
\* whole-region transfer never invoke the chunker; a GeoTIFF request ends at
\* once in tier Direct with no remote job, and so does a NetCDF request
\* unless its conversion of the transferred raster fails.
C2_DirectSuccessNoChunker ==
    (SizeKnownSmall /\ calls.transferOk = 1) =>
        /\ "Chunked" \notin Range(tiers)
        /\ calls.chunkTransfer = 0
        /\ format_type = "GeoTIFF" => pc = "done" /\ ~ConversionFailed
        /\ ~ConversionFailed =>
              /\ calls.submit = 0
              /\ pc = "done" => tier = "Direct" /\ outcome.path \in disk

C2_Witness ==
    /\ pc = "done"
    /\ size_estimate = max_pixels_no_chunk
    /\ calls.transferOk = 1
    /\ tier = "Direct"
    /\ format_type = "GeoTIFF"

\* C3: when the estimate exceeds the threshold no whole-region direct
\* transfer is attempted, and a remote submission is always preceded by the
\* entry of the chunked export.
C3_ChunkedBeforeRemote ==
    (size_estimate > max_pixels_no_chunk) =>
        /\ needs_chunking
        /\ "Direct" \notin Range(tiers)
        /\ calls.transfer = 0
        /\ pc = "C_setup" \/ (tiers # <<>> /\ tiers[1] = "Chunked")
        /\ "Remote" \in Range(tiers) => tiers[1] = "Chunked"

C3_Witness ==
    /\ size_estimate > max_pixels_no_chunk
    /\ Len(chunk_files) = total_chunks
    /\ Len(tiers) >= 2
    /\ tiers[1] = "Chunked"
    /\ tiers[2] = "Remote"
    /\ Len(driveJobs) >= 1

\* C4 (as claimed): after a failed whole-region transfer the next tier is
\* ChunkedLocal, and a remote job is submitted only after a chunk sweep.
C4_DirectFailureGoesChunked ==
    /\ \A k \in 1..(Len(tiers) - 1) :
          tiers[k] = "Direct" => tiers[k + 1] = "Chunked"
    /\ "Remote" \in Range(tiers) => "Chunked" \in Range(tiers)

\* C4 (amended): after a failed whole-region transfer the next tier is
\* RemoteFallback; the chunked export is never entered by a request that
\* entered DirectLocal.
C4_DirectFailureGoesRemote ==
    ("Direct" \in Range(tiers)) =>
        /\ tiers[1] = "Direct"
        /\ "Chunked" \notin Range(tiers)
        /\ calls.chunkTransfer = 0
        /\ Len(tiers) >= 2 => tiers[2] = "Remote"
        /\ calls.transferOk = 0 =>
              /\ pc \in {"G_drive", "N_drive", "done"}
              /\ pc = "done" => Len(tiers) >= 2 /\ calls.submit >= 1

C4_Witness ==
    /\ pc = "done"
    /\ tiers = <<"Direct", "Remote">>
    /\ calls.transfer = 1
    /\ calls.transferOk = 0
    /\ tier = "Remote"

\* C5: when the size estimate cannot be computed the raster is treated as
\* oversized: the export goes to the chunked export, no direct transfer is
\* attempted, and the request only fails if a remote submission raised.
C5_EstimateFailureIsOversized ==
    (size_estimate = -1) =>
        /\ needs_chunking
        /\ "Direct" \notin Range(tiers)
        /\ calls.transfer = 0
        /\ pc = "C_setup" \/ (tiers # <<>> /\ tiers[1] = "Chunked")
        /\ outcome.kind = "ExportFailed" => calls.submitRaised > 0

C5_Witness ==
    /\ size_estimate = -1
    /\ pc = "C_loop"
    /\ Len(chunk_files) = 1

\* C6 (as claimed): a failed merge with a tile present escalates to
\* RemoteFallback: a remote job is submitted and the outcome is Remote.
C6_MergeFailureEscalates ==
    (pc = "done" /\ MergeFailed) =>
        /\ Len(driveJobs) >= 1
        /\ tier = "Remote"

\* C6 (amended): a failed merge with a tile present does not escalate a
\* GeoTIFF request, which ends with the partial outcome and no remote
\* submission; only a NetCDF request goes on to RemoteFallback, attempting a
\* NetCDF remote submission, with outcome Remote when a submission succeeds.
C6_MergeFailureByFormat ==
    (pc = "done" /\ MergeFailed) =>
        IF format_type = "GeoTIFF"
        THEN /\ outcome.kind = "ChunkedPartial"
             /\ "Remote" \notin Range(tiers)
             /\ driveJobs = <<>>
        ELSE /\ "Remote" \in Range(tiers)
             /\ calls.submit >= 1
             /\ \/ /\ outcome.kind = "NetCDFDriveStarted"
                   /\ tier = "Remote"
                   /\ Len(driveJobs) = 1
                   /\ driveJobs[1].fileFormat = "NetCDF"
                \/ /\ outcome.kind = "ExportFailed"
                   /\ driveJobs = <<>>

C6_Witness ==
    /\ pc = "done"
    /\ MergeFailed
    /\ format_type = "NetCDF"
    /\ chunks_completed >= 1
    /\ tier = "Remote"

\* C7 (as claimed): a failed merge with a tile present makes the export
\* return the partial outcome with the chunk count, the tiles stay on disk
\* and no remote job is submitted.
C7_MergeFailureReturnsPartial ==
    (pc = "done" /\ MergeFailed) =>
        /\ outcome = ThePartialOutcome
        /\ ChunkDir(chunk_name) \in dirs
        /\ calls.submit = 0

\* C7 (amended): a failed merge with a tile present makes the chunked export
\* return the partial outcome with the count of succeeded chunks of the
\* total, leave every tile on disk and submit no remote job itself; a
\* GeoTIFF request returns that outcome, a NetCDF request replaces it.
C7_ChunkerReturnsPartial ==
    MergeFailed =>
        /\ ChunkDir(chunk_name) \in dirs
        /\ chunks_completed >= 1
        /\ Cardinality(FilesIn(ChunkDir(chunk_name))) = chunks_completed
        /\ \A k \in 1..Len(driveJobs) : driveJobs[k].fileFormat # "GeoTIFF"
        /\ IF format_type = "GeoTIFF"
           THEN pc = "done" /\ outcome = ThePartialOutcome /\ calls.submit = 0
           ELSE geotiff_result = ThePartialOutcome

C7_Witness ==
    /\ pc = "done"
    /\ MergeFailed
    /\ format_type = "GeoTIFF"
    /\ outcome = ChunkedPartial(3, 4, ChunkDir(export_name))
    /\ Cardinality(FilesIn(ChunkDir(export_name))) = 3

\* C8 (as claimed): when no tile exists after the whole sweep the merge is
\* not attempted and exactly one remote job is submitted.
C8_NoTilesOneRemoteJob ==
    (pc = "done" /\ Len(chunk_files) = total_chunks /\ chunks_completed = 0) =>
        /\ calls.merge = 0
        /\ calls.submit = 1
        /\ Len(driveJobs) = 1
        /\ tier = "Remote"

\* C9 (as claimed): k >= 1 succeeded chunks and a successful merge give an
\* outcome of tier Chunked whose file exists and which itself carries the
\* chunk accounting "k of R*C".
C9_OutcomeCarriesChunkCount ==
    (pc = "done" /\ MergeSucceeded) =>
        /\ tier = "Chunked"
        /\ outcome.path \in disk
        /\ outcome.completed = chunks_completed
        /\ outcome.total = total_chunks

\* C9 (amended): k succeeded chunks (1 <= k <= 4) and a successful merge
\* make the chunked export return the completed outcome naming the merged
\* file, which exists; a GeoTIFF request ends with it in tier Chunked.  The
\* accounting "k of 4" is in the status message sent before the merge, the
\* returned outcome carries no chunk count.
C9_MergedFileAndStatusCount ==
    MergeSucceeded =>
        /\ chunks_completed \in 1..total_chunks
        /\ MergedFile \in disk \/ calls.convert > calls.convertRaised
        /\ has_cb => TheMergingEvent \in Range(events)
        /\ IF format_type = "GeoTIFF"
           THEN /\ pc = "done"
                /\ tier = "Chunked"
                /\ outcome = GeoTIFFCompleted(MergedFile)
                /\ outcome.total = 0
           ELSE /\ geotiff_result = GeoTIFFCompleted(MergedFile)
                /\ (pc = "done" /\ ~ConversionFailed) =>
                      tier = "Chunked" /\ outcome.path \in disk

C9_Witness ==
    /\ pc = "done"
    /\ MergeSucceeded
    /\ format_type = "GeoTIFF"
    /\ size_estimate = 8000000
    /\ chunks_completed = 3
    /\ has_cb
    /\ outcome.path \in disk

\* C10 (as claimed): when the conversion of a locally produced raster fails,
\* the raster file is kept, the outcome reports the raster tier, and no
\* remote job is submitted.
C10_ConversionFailureKeepsTier ==
    (pc = "done" /\ ConversionFailed) =>
        /\ RasterFileOfRequest \in disk
        /\ tier \in {"Direct", "Chunked"}
        /\ calls.submit = 0

\* C10 (amended): when the conversion of a locally produced raster fails,
\* the raster file is kept on disk, and the request escalates to
\* RemoteFallback although a local file exists: a NetCDF remote submission is
\* attempted and the outcome is the remote one, or an error when the
\* submissions raise.
C10_ConversionFailureGoesRemote ==
    ConversionFailed =>
        /\ format_type = "NetCDF"
        /\ RasterFileOfRequest \in disk
        /\ NetcdfLocalFilePath \notin disk
        /\ pc \in {"N_drive", "done"}
        /\ pc = "done" =>
              /\ "Remote" \in Range(tiers)
              /\ \/ /\ outcome.kind = "NetCDFDriveStarted"
                    /\ tier = "Remote"
                    /\ Len(driveJobs) = 1
                    /\ driveJobs[1].fileFormat = "NetCDF"
                 \/ /\ outcome.kind = "ExportFailed"
                    /\ driveJobs = <<>>

C10_Witness ==
    /\ pc = "done"
    /\ ConversionFailed
    /\ RasterFileOfRequest \in disk
    /\ tier = "Remote"
    /\ Len(driveJobs) = 1

(***************************************************************************)
(* _get_export_path on its own: one call with arguments from bounded sets  *)
(***************************************************************************)
MaxSegments == 3

AllFormats == {"GeoTIFF", "CSV", "NetCDF"}

\* the segments folder_name.split('/') can give; "" comes from an empty
\* string, a trailing or a doubled slash
Segments == {"", "unknown", "UNKNOWN", "ERA5", "era5", "general", "MyData",
             "SPI"}

\* str.split never returns an empty list
FolderNames ==
    UNION {[1..n -> Segments] : n \in 1..MaxSegments}

ExtensionOf(fmt) ==
    IF fmt = "GeoTIFF" THEN "tif" ELSE IF fmt = "CSV" THEN "csv" ELSE "nc"

\* the variables the requests share, before any request
SharedIdle ==
    /\ format_type = ""
    /\ has_cb = FALSE
    /\ folder_name = <<>>
    /\ i = 0
    /\ disk = {}
    /\ driveJobs = <<>>
    /\ outcome = NoOutcome
    /\ events = <<>>

InitPath ==
    /\ GridIdle
    /\ SingleIdle
    /\ SharedIdle
    /\ AllYearsIdle
    /\ CsvIdle
    /\ pc = "P_call"
    /\ path_args \in {[format_type |-> f, folder_name |-> d,
                       export_name |-> export_name,
                       extension |-> ExtensionOf(f)] :
                         f \in AllFormats, d \in FolderNames}
    /\ path_result = NoFile

ResolvedPath ==
    _get_export_path(path_args.format_type, path_args.folder_name,
                     path_args.export_name, path_args.extension)

\* the first call
GetExportPath ==
    /\ pc = "P_call"
    /\ path_result' = ResolvedPath
    /\ pc' = "P_returned"
    /\ UNCHANGED <<path_args, singleVars, allYearsVars, csvVars, gridVars,
                   format_type,
                   has_cb, folder_name, i, disk, driveJobs, outcome, events>>

\* a second call with the same arguments
GetExportPathAgain ==
    /\ pc = "P_returned"
    /\ path_result' = ResolvedPath
    /\ pc' = "P_again"
    /\ UNCHANGED <<path_args, singleVars, allYearsVars, csvVars, gridVars,
                   format_type,
                   has_cb, folder_name, i, disk, driveJobs, outcome, events>>

NextPath ==
    \/ GetExportPath
    \/ GetExportPathAgain

SpecPath == InitPath /\ [][NextPath]_vars

\* the directory segments of the result below <local_export_dir>/<format>
SegmentsBelowFormat ==
    SubSeq(path_result.dir, Len(local_export_dir) + 2, Len(path_result.dir))

PathReturned == pc \in {"P_returned", "P_again"}

(***************************************************************************)
(* C18: for every exporter and tier the final artifact is at the path      *)
(* _get_export_path returns for the request's format, its folder           *)
(* "<dataset>/<index>", its name and the format's extension.               *)
(* The single GeoTIFF export builds its own path and hands the absolute    *)
(* local folder to the chunked export, so this is violated.                *)
(***************************************************************************)
C18_ArtifactAtResolverPath ==
    (pc = "done" /\ outcome.kind \in {"GeoTIFFCompleted", "NetCDFCompleted"})
        => /\ outcome.path = _get_export_path(format_type, folder_name,
                                              export_name,
                                              ExtensionOf(format_type))
           /\ outcome.path \in disk

(***************************************************************************)
(* C19: for every folder and format the returned file lies under exactly   *)
(* two non-empty directory segments below <local_export_dir>/<format>.     *)
(* An empty folder gives one segment, three segments are kept.             *)
(***************************************************************************)
C19_ExactlyTwoSegments ==
    PathReturned
        => /\ SubSeq(path_result.dir, 1, Len(local_export_dir) + 1)
                = local_export_dir \o <<path_args.format_type>>
           /\ Len(SegmentsBelowFormat) = 2
           /\ \A k \in 1..Len(SegmentsBelowFormat) : SegmentsBelowFormat[k] # ""

(***************************************************************************)
(* C20: a second call returns the same path, and when the source or the    *)
(* category of the folder is "unknown" in any case, the source of the      *)
(* result is "general", its category the format's default, and neither is  *)
(* "unknown".  For a source that is not recognized the category is dropped *)
(* and the source takes its place, so this is violated.                    *)
(***************************************************************************)
C20_UnknownReplaced ==
    /\ pc = "P_again" => path_result = ResolvedPath
    /\ PathReturned =>
         LET parts == path_args.folder_name
             below == SegmentsBelowFormat
         IN  /\ Lower(parts[1]) = "unknown"
                  => Len(below) >= 1 /\ below[1] = "general"
             /\ (Len(parts) > 1 /\ Lower(parts[2]) = "unknown")
                  => /\ Len(below) >= 2
                     /\ below[2] = DefaultCategory(path_args.format_type)
             /\ \A k \in 1..Len(below) :
                  k <= 2 => Lower(below[k]) # "unknown"

(***************************************************************************)
(* Table export: _export_csv_enhanced and _export_all_csv_enhanced         *)
(***************************************************************************)
max_rows_csv == 1000000

MaxParts == 3

\* len(temporal_data): around the limit and its multiples
RowCounts ==
    {0, 1, max_rows_csv - 1} \cup
    UNION {{k * max_rows_csv, k * max_rows_csv + 1,
            k * max_rows_csv + (max_rows_csv \div 2)} : k \in 1..(MaxParts - 1)}

CsvExporters == {"_export_csv_enhanced", "_export_all_csv_enhanced"}

\* "Error: No temporal data available for CSV export"
NoTemporalData == Outcome("NoTemporalData", NoFile, 0, 0, <<>>)

\* "CSV export completed. File saved to: {path} (.. MB)"
CSVCompleted(path) == Outcome("CSVCompleted", path, 0, 0, <<>>)

\* "CSV export completed with chunking. {n} files created in {chunk_dir}"
CSVChunked(n, dir) == Outcome("CSVChunked", NoFile, n, n, dir)

\* "CSV export failed: ..."
CSVFailed == Outcome("CSVFailed", NoFile, 0, 0, <<>>)

\* needs_chunking = num_rows > self.max_rows_csv
CsvNeedsChunking(n) == n > max_rows_csv

chunk_size == max_rows_csv

\* math.ceil(num_rows / chunk_size)
num_chunks == (num_rows + chunk_size - 1) \div chunk_size

Min(a, b) == IF a < b THEN a ELSE b

start_idx(k) == k * chunk_size

end_idx_unclipped(k) == (k + 1) * chunk_size

\* end_idx = min((i + 1) * chunk_size, num_rows)
end_idx(k) == Min((k + 1) * chunk_size, num_rows)

\* local_file_path of the table exporters
CsvLocalFilePath ==
    IF csv_exporter = "_export_csv_enhanced"
    THEN _get_export_path("CSV", folder_name, export_name, "csv")
    ELSE _get_export_path("CSV", folder_name, export_name \o "_temporal", "csv")

CsvLocalFolder == CsvLocalFilePath.dir

\* chunk_dir of the table exporters
CsvChunkDir ==
    IF csv_exporter = "_export_csv_enhanced"
    THEN CsvLocalFolder \o <<export_name \o "_chunks">>
    ELSE _get_export_path("CSV", folder_name, export_name \o "_chunks", "").dir

\* f"{export_name}_part_{i+1}_of_{num_chunks}.csv"
CsvPartName(k) ==
    export_name \o "_part_" \o ToString(k + 1) \o "_of_" \o
    ToString(num_chunks) \o ".csv"

\* a written table: its file and the rows df.iloc[first:last] it holds
CsvFile(file, first, last) == [file |-> file, first |-> first, last |-> last]

\* 'Rows' of the index file for part k
IndexRows(k) == Min(chunk_size, num_rows - k * chunk_size)

\* summary_df
SummaryRows ==
    [k \in 1..num_chunks |->
        [Chunk |-> "Part " \o ToString(k) \o " of " \o ToString(num_chunks),
         Rows |-> IndexRows(k - 1),
         Filename |-> CsvPartName(k - 1)]]

CsvSummaryFile == JoinFile(CsvLocalFolder, export_name \o "_index.csv")

InitCsv ==
    /\ GridIdle
    /\ SingleIdle
    /\ AllYearsIdle
    /\ PathIdle
    /\ pc = "T_start"
    /\ format_type = "CSV"
    /\ has_cb \in BOOLEAN
    /\ folder_name \in {<<d, x>> : d \in Datasets, x \in Indices}
    /\ i = 0
    /\ disk = {}
    /\ driveJobs = <<>>
    /\ outcome = NoOutcome
    /\ events = <<>>
    /\ num_rows \in RowCounts
    /\ csv_files = <<>>
    /\ csv_index = <<>>
    /\ csv_exporter \in CsvExporters

csvFixed == <<singleVars, allYearsVars, pathVars, gridVars, format_type, has_cb,
              folder_name, driveJobs, num_rows, csv_exporter>>

\* the exporter up to the chunk loop, or to its return for a small table
ExportCsv ==
    /\ pc = "T_start"
    /\ IF num_rows = 0
       THEN /\ outcome' = NoTemporalData
            /\ pc' = "done"
            /\ events' = Emit(events, Event("Setting up CSV export", 0, 0))
            /\ UNCHANGED <<disk, csv_files>>
       ELSE IF CsvNeedsChunking(num_rows)
       THEN /\ pc' = "T_chunk"
            /\ events' = Emit(Emit(events, Event("Setting up CSV export", 0, 0)),
                              Event("Large dataset detected", num_rows, 0))
            /\ UNCHANGED <<outcome, disk, csv_files>>
       ELSE \E written \in BOOLEAN :
              IF written
              THEN /\ disk' = disk \cup {CsvLocalFilePath}
                   /\ csv_files' = <<CsvFile(CsvLocalFilePath, 0, num_rows)>>
                   /\ outcome' = CSVCompleted(CsvLocalFilePath)
                   /\ pc' = "done"
                   /\ events' =
                        Emit(Emit(events, Event("Setting up CSV export", 0, 0)),
                             Event("CSV export completed", 0, 0))
              ELSE /\ outcome' = CSVFailed
                   /\ pc' = "done"
                   /\ events' =
                        Emit(Emit(events, Event("Setting up CSV export", 0, 0)),
                             Event("CSV export failed", 0, 0))
                   /\ UNCHANGED <<disk, csv_files>>
    /\ UNCHANGED <<i, csv_index, csvFixed>>

\* one pass of "for i in range(num_chunks)"
CsvWriteChunk ==
    /\ pc = "T_chunk"
    /\ \E written \in BOOLEAN :
         IF written
         THEN LET file == JoinFile(CsvChunkDir, CsvPartName(i))
              IN  /\ disk' = disk \cup {file}
                  /\ csv_files' = Append(csv_files,
                                         CsvFile(file, start_idx(i), end_idx(i)))
                  /\ i' = i + 1
                  /\ pc' = IF i + 1 < num_chunks THEN "T_chunk" ELSE "T_index"
                  /\ events' =
                       IF csv_exporter = "_export_csv_enhanced" /\ i % 5 = 0
                       THEN Emit(events, Event("Exported chunk", i + 1, num_chunks))
                       ELSE events
                  /\ UNCHANGED outcome
         ELSE /\ outcome' = CSVFailed
              /\ pc' = "done"
              /\ events' = Emit(events, Event("CSV export failed", 0, 0))
              /\ UNCHANGED <<disk, csv_files, i>>
    /\ UNCHANGED <<csv_index, csvFixed>>

\* the index file and the return after the loop
CsvWriteIndex ==
    /\ pc = "T_index"
    /\ \E written \in BOOLEAN :
         IF written
         THEN /\ disk' = disk \cup {CsvSummaryFile}
              /\ csv_index' = SummaryRows
              /\ outcome' = CSVChunked(num_chunks, CsvChunkDir)
              /\ UNCHANGED events
         ELSE /\ outcome' = CSVFailed
              /\ events' = Emit(events, Event("CSV export failed", 0, 0))
              /\ UNCHANGED <<disk, csv_index>>
    /\ pc' = "done"
    /\ UNCHANGED <<i, csv_files, csvFixed>>

NextCsv ==
    \/ ExportCsv
    \/ CsvWriteChunk
    \/ CsvWriteIndex

SpecCsv == InitCsv /\ [][NextCsv]_vars

RECURSIVE RowsWritten(_)
\* the number of rows in a sequence of written tables
RowsWritten(files) ==
    IF files = <<>> THEN 0
    ELSE (Head(files).last - Head(files).first) + RowsWritten(Tail(files))

\* the least number of parts of at most max_rows_csv rows that hold n rows
PartsNeeded(n) ==
    CHOOSE c \in 0..(MaxParts + 2) :
        c * max_rows_csv >= n /\ (c = 0 \/ (c - 1) * max_rows_csv < n)

CsvReturned == pc = "done" /\ outcome.kind # "CSVFailed"

\* the parts tile the rows in order and the index tells their sizes
CsvPartsTile ==
    /\ Len(csv_files) = PartsNeeded(num_rows)
    /\ \A k \in 1..Len(csv_files) :
         /\ csv_files[k].first = (k - 1) * max_rows_csv
         /\ csv_files[k].last = Min(k * max_rows_csv, num_rows)
         /\ csv_files[k].first < csv_files[k].last
         /\ csv_files[k].file \in disk
    /\ RowsWritten(csv_files) = num_rows
    /\ Len(csv_index) = Len(csv_files)
    /\ \A k \in 1..Len(csv_index) :
         /\ csv_index[k].Rows = csv_files[k].last - csv_files[k].first
         /\ csv_index[k].Filename = csv_files[k].file.file
    /\ CsvSummaryFile \in disk

CsvOneFile ==
    /\ Len(csv_files) = 1
    /\ csv_files[1] = CsvFile(CsvLocalFilePath, 0, num_rows)
    /\ CsvLocalFilePath \in disk
    /\ csv_index = <<>>

(***************************************************************************)
(* C17: a table of n rows is written as one file when n is at most         *)
(* max_rows_csv, else as ceil(n / max_rows_csv) parts that hold the rows   *)
(* in order, whose sizes sum to n and stand in the index file.             *)
(* As stated, for every n: an empty table writes no file.                  *)
(***************************************************************************)
C17_TableSplitAnyCount ==
    CsvReturned =>
        /\ num_rows <= max_rows_csv => CsvOneFile
        /\ num_rows > max_rows_csv => CsvPartsTile

\* C17 as the code has it: the one file is written for 1 <= n <= max_rows_csv,
\* an empty table is refused without a file
C17_TableSplit ==
    CsvReturned =>
        /\ num_rows = 0 => outcome = NoTemporalData /\ disk = {}
        /\ (1 <= num_rows /\ num_rows <= max_rows_csv) => CsvOneFile
        /\ num_rows > max_rows_csv => CsvPartsTile

\* 2,500,000 rows were written as parts of 1000000, 1000000 and 500000 rows
C17_Witness ==
    /\ pc = "done"
    /\ outcome.kind = "CSVChunked"
    /\ num_rows = 2500000
    /\ [k \in 1..Len(csv_index) |-> csv_index[k].Rows]
         = <<1000000, 1000000, 500000>>

(***************************************************************************)
(* export_all_data: per-year export of a range of years.  The status       *)
(* messages of these functions are not recorded.                           *)
(***************************************************************************)
MaxYears == 6

batch_size == 5

\* state['time_range'], with the first year numbered 1
YearRanges == {<<1, n>> : n \in {1, MaxYears}}

CpuCounts == {1, 3, 8}

start_year == time_range[1]

end_year == time_range[2]

total_years == end_year - start_year + 1

Max(a, b) == IF a > b THEN a ELSE b

\* num_processes = max(1, min(mp.cpu_count() - 1, 4))
num_processes == Max(1, Min(cpu_count - 1, 4))

\* years_to_export = list(range(start_year, end_year + 1))
years_to_export == [k \in 1..total_years |-> start_year + k - 1]

batch_whole(k) == {years_to_export[n] : n \in 1..Len(years_to_export)}

\* batch = years_to_export[i:i+batch_size], for the loop variable k
batch(k) ==
    {years_to_export[n] :
        n \in (k + 1)..Min(k + batch_size, Len(years_to_export))}

\* export_name stands for export_name_base
time_series_folder ==
    _get_export_path("GeoTIFF", folder_name, export_name, "tif").dir
        \o <<export_name>>

YearFile_shared(y) == JoinFile(time_series_folder, export_name \o ".tif")

\* local_file_path of the export of one year
YearFile(y) ==
    JoinFile(time_series_folder, export_name \o "_" \o ToString(y) \o ".tif")

years_folder ==
    _get_export_path("NetCDF", folder_name, export_name, "nc").dir
        \o <<export_name \o "_years">>

\* year_file_path of the NetCDF export of one year
YearNcFile(y) ==
    JoinFile(years_folder, export_name \o "_" \o ToString(y) \o ".nc")

\* merged_file of the NetCDF export
merged_file ==
    _get_export_path("NetCDF", folder_name, export_name \o "_all_years", "nc")

\* the strings the per-year exports return
AllOutcome(kind, path, completed, total, failed, folder) ==
    [kind |-> kind, path |-> path, completed |-> completed, total |-> total,
     failed |-> failed, folder |-> folder]

\* "Error: No analysis state available for export"
NoStateOutcome == AllOutcome("NoState", NoFile, 0, 0, 0, <<>>)

\* "GeoTIFF export completed. {k} of {n} years exported successfully to {dir}"
\* and, when f > 0, ". {f} years failed to export."
AllGeoTIFFCompleted(k, n, f, dir) ==
    AllOutcome("AllGeoTIFFCompleted", NoFile, k, n, f, dir)

AllGeoTIFFDriveStarted_total(k, dir) ==
    AllOutcome("AllGeoTIFFDriveStarted", NoFile, total_years, 0, 0, dir)

\* "Started {k} GeoTIFF export tasks to Google Drive. Files will be saved to .."
AllGeoTIFFDriveStarted(k, dir) ==
    AllOutcome("AllGeoTIFFDriveStarted", NoFile, k, 0, 0, dir)

\* "NetCDF export completed. {k} of {n} years exported. Multi-year file saved
\* to: {path} ... Individual year files available in {dir}."
AllNetCDFCompleted(path, k, n, f, dir) ==
    AllOutcome("AllNetCDFCompleted", path, k, n, f, dir)

\* "NetCDF export partially completed. {k} individual year files created but
\* could not be merged ... Files available in {dir}."
AllNetCDFPartial(k, dir) == AllOutcome("AllNetCDFPartial", NoFile, k, 0, 0, dir)

\* "Started {k} NetCDF export tasks to Google Drive. ..."
AllNetCDFDriveStarted(k, dir) ==
    AllOutcome("AllNetCDFDriveStarted", NoFile, k, 0, 0, dir)

TopLevelOutcome_propagate == AllOutcome("Raised", NoFile, 0, 0, 0, <<>>)

\* the except clause of export_all_data: "Export failed: ..."
TopLevelOutcome == ExportFailed

\* the record of the watched year after one more happening to year y
Note(h, y, what) == IF y = watch THEN [h EXCEPT ![what] = @ + 1] ELSE h

\* what the export of one year meets: _get_data_for_year returns None, or
\* it returns an image and ee_export_image creates the file, returns without
\* the file, or raises
YearOutcomes == {"null", "file", "nofile", "raise"}

\* the worker's (success, year) for an outcome, files being the disk before
YearSuccess(o, y, files) ==
    \/ o = "file"
    \/ o = "nofile" /\ YearFile(y) \in files

HistAfterYear(h, o, y) ==
    IF o = "null" THEN Note(h, y, "nulls")
    ELSE Note(Note(h, y, "data"), y, "transfers")

\* the NetCDF export is followed with a status callback over this range
LoggedYears == 3

LoggedRange == <<1, LoggedYears>>

InitAll ==
    /\ GridIdle
    /\ SingleIdle
    /\ PathIdle
    /\ CsvIdle
    /\ pc = "A_start"
    /\ format_type \in Formats
    /\ folder_name = <<"era5", "unknown">>
    /\ i = 0
    /\ disk = {}
    /\ driveJobs = <<>>
    /\ outcome = NoOutcome
    /\ events = <<>>
    /\ hasState \in BOOLEAN
    /\ \/ has_cb = FALSE /\ time_range \in YearRanges
       \/ has_cb = TRUE /\ format_type = "NetCDF" /\ time_range = LoggedRange
    /\ cpu_count = 0
    /\ watch \in {time_range[1], time_range[2]}
    /\ hist = NoHist
    /\ pending = {}
    /\ inflight = {}
    /\ results = {}
    /\ year = 0
    /\ successful_exports = 0
    /\ failed_exports = 0
    /\ individual_files = <<>>
    /\ task_count = 0
    /\ combined = <<>>

allFixed == <<singleVars, pathVars, csvVars, gridVars, format_type, has_cb,
              folder_name, hasState, time_range, watch>>

\* export_all_data up to the first year; r = "raise" when the set-up of the
\* per-year export (its folder) raises; the GeoTIFF export asks for
\* mp.cpu_count()
ExportAllData ==
    /\ pc = "A_start"
    /\ IF ~hasState
       THEN /\ outcome' = NoStateOutcome
            /\ pc' = "done"
            /\ UNCHANGED year
       ELSE \E r \in {"ok", "raise"} :
              IF r = "raise"
              THEN /\ outcome' = TopLevelOutcome
                   /\ pc' = "done"
                   /\ UNCHANGED year
              ELSE /\ pc' = IF format_type = "GeoTIFF" THEN "AG_batch"
                            ELSE "AN_year"
                   /\ year' = start_year
                   /\ UNCHANGED outcome
    /\ events' =
         LET started == Emit(events, Event("Starting export of all data", 0, 0))
             entered == IF format_type = "NetCDF"
                        THEN Emit(started,
                                  Event("Starting enhanced export of all years as NetCDF", 0, 0))
                        ELSE started
         IN  IF ~hasState THEN started
             ELSE IF outcome' = TopLevelOutcome
                  THEN Emit(entered, Event("Export failed", 0, 0))
                  ELSE entered
    /\ IF hasState /\ format_type = "GeoTIFF" /\ pc' = "AG_batch"
       THEN cpu_count' \in CpuCounts
       ELSE UNCHANGED cpu_count
    /\ UNCHANGED <<i, disk, driveJobs, hist, pending, inflight, results,
                   successful_exports, failed_exports, individual_files,
                   task_count, combined, allFixed>>

\* the head of "for i in range(0, len(years_to_export), batch_size)" and the
\* call of pool.map; r = "raise" when the pool or pool.map raises, and the
\* sequential loop then starts from the counters the batches left
BatchStart ==
    /\ UNCHANGED cpu_count
    /\ pc = "AG_batch"
    /\ IF i >= Len(years_to_export)
       THEN /\ pc' = "AG_finish"
            /\ UNCHANGED <<pending, year, successful_exports, failed_exports>>
       ELSE \E r \in {"map", "raise"} :
              IF r = "raise"
              THEN /\ pc' = "AG_seq"
                   /\ year' = start_year
                   /\ UNCHANGED <<pending, successful_exports, failed_exports>>
              ELSE /\ pc' = "AG_map"
                   /\ pending' = batch(i)
                   /\ UNCHANGED <<year, successful_exports, failed_exports>>
    /\ UNCHANGED <<i, disk, driveJobs, outcome, hist, inflight, results,
                   individual_files, task_count, combined, allFixed,
                   events>>

\* a free pool worker takes a year of the batch
WorkerTake ==
    /\ UNCHANGED cpu_count
    /\ pc = "AG_map"
    /\ Cardinality(inflight) < num_processes
    /\ \E y \in pending :
         /\ pending' = pending \ {y}
         /\ inflight' = inflight \cup {y}
    /\ UNCHANGED <<pc, i, disk, driveJobs, outcome, hist, results, year,
                   successful_exports, failed_exports, individual_files,
                   task_count, combined, allFixed,
                   events>>

\* export_one_year in a pool worker
WorkerExport ==
    /\ UNCHANGED cpu_count
    /\ pc = "AG_map"
    /\ \E y \in inflight, o \in YearOutcomes :
         /\ inflight' = inflight \ {y}
         /\ results' = results \cup {<<YearSuccess(o, y, disk), y>>}
         /\ disk' = IF o = "file" THEN disk \cup {YearFile(y)} ELSE disk
         /\ hist' = HistAfterYear(hist, o, y)
    /\ UNCHANGED <<pc, i, driveJobs, outcome, pending, year,
                   successful_exports, failed_exports, individual_files,
                   task_count, combined, allFixed,
                   events>>

\* pool.map returns and the results are counted; r = "raise" when pool.map
\* raises instead of returning them
BatchCollect ==
    /\ UNCHANGED cpu_count
    /\ pc = "AG_map"
    /\ pending = {}
    /\ inflight = {}
    /\ \E r \in {"ok", "raise"} :
         IF r = "ok"
         THEN /\ successful_exports' = successful_exports +
                    Cardinality({x \in results : x[1]})
              /\ failed_exports' = failed_exports +
                    Cardinality({x \in results : ~x[1]})
              /\ hist' = IF <<TRUE, watch>> \in results
                         THEN Note(hist, watch, "succeeded")
                         ELSE IF <<FALSE, watch>> \in results
                         THEN Note(hist, watch, "failed")
                         ELSE hist
              /\ i' = i + batch_size
              /\ pc' = "AG_batch"
              /\ UNCHANGED year
         ELSE /\ pc' = "AG_seq"
              /\ year' = start_year
              /\ UNCHANGED <<i, hist, successful_exports, failed_exports>>
    /\ results' = {}
    /\ UNCHANGED <<disk, driveJobs, outcome, pending, inflight,
                   individual_files, task_count, combined, allFixed,
                   events>>

\* one pass of the sequential loop over all years
SequentialYear ==
    /\ UNCHANGED cpu_count
    /\ pc = "AG_seq"
    /\ \E o \in YearOutcomes :
         /\ disk' = IF o = "file" THEN disk \cup {YearFile(year)} ELSE disk
         /\ IF YearSuccess(o, year, disk)
            THEN /\ successful_exports' = successful_exports + 1
                 /\ UNCHANGED failed_exports
                 /\ hist' = Note(HistAfterYear(hist, o, year), year, "succeeded")
            ELSE /\ failed_exports' = failed_exports + 1
                 /\ UNCHANGED successful_exports
                 /\ hist' = Note(HistAfterYear(hist, o, year), year, "failed")
    /\ year' = year + 1
    /\ pc' = IF year + 1 > end_year THEN "AG_finish" ELSE "AG_seq"
    /\ UNCHANGED <<i, driveJobs, outcome, pending, inflight, results,
                   individual_files, task_count, combined, allFixed,
                   events>>

\* "Final status update" of _export_all_geotiff_enhanced
AllGeotiffFinish ==
    /\ UNCHANGED cpu_count
    /\ pc = "AG_finish"
    /\ IF successful_exports > 0
       THEN /\ outcome' = AllGeoTIFFCompleted(successful_exports, total_years,
                                              failed_exports,
                                              time_series_folder)
            /\ pc' = "done"
            /\ UNCHANGED <<year, task_count>>
       ELSE /\ pc' = "AG_drive"
            /\ year' = start_year
            /\ task_count' = 0
            /\ UNCHANGED outcome
    /\ UNCHANGED <<i, disk, driveJobs, hist, pending, inflight, results,
                   successful_exports, failed_exports, individual_files,
                   combined, allFixed,
                   events>>

\* folder_name after "Fix folder name for consistency"
AllDriveFolderName ==
    LET parts == FixDataset(folder_name)
    IN  IF Len(parts) = 0 THEN <<"general", "data">>
        ELSE IF Len(parts) = 1 THEN Append(parts, "climate_data")
        ELSE parts

\* drive_folder of _export_all_geotiff_to_drive
AllGeotiffDriveFolder ==
    <<export_root>> \o AllDriveFolderName \o <<export_name>>

\* drive_folder of _export_all_netcdf_to_drive
AllNetcdfDriveFolder == <<export_root>> \o folder_name \o <<export_name>>

\* what the Drive export of one year meets: no image, a started task, or
\* an exception
DriveYearOutcomes == {"null", "started", "raise"}

HistAfterDrive(h, o, y) ==
    LET h1 == IF y = watch THEN [h EXCEPT !.watchDrive = Append(@, o)] ELSE h
    IN  IF o = "null" THEN [h1 EXCEPT !.driveNulls = @ + 1]
        ELSE IF o = "raise" THEN [h1 EXCEPT !.driveRaised = @ + 1]
        ELSE h1

\* one pass of the loop of _export_all_geotiff_to_drive, with its return
\* after the last year
AllGeotiffToDrive ==
    /\ UNCHANGED cpu_count
    /\ pc = "AG_drive"
    /\ \E o \in DriveYearOutcomes :
         LET started == IF o = "started" THEN 1 ELSE 0
         IN  /\ task_count' = task_count + started
             /\ driveJobs' =
                  IF o = "started"
                  THEN Append(driveJobs,
                              DriveJob("GeoTIFF", AllGeotiffDriveFolder,
                                       export_name \o "_" \o ToString(year)))
                  ELSE driveJobs
             /\ IF year + 1 > end_year
                THEN /\ outcome' = AllGeoTIFFDriveStarted(task_count + started,
                                                          AllGeotiffDriveFolder)
                     /\ pc' = "done"
                ELSE UNCHANGED <<outcome, pc>>
             /\ hist' = HistAfterDrive(hist, o, year)
    /\ year' = year + 1
    /\ UNCHANGED <<i, disk, pending, inflight, results,
                   successful_exports, failed_exports, individual_files,
                   combined, allFixed,
                   events>>

\* what the NetCDF export of one year meets: no image, the GeoTIFF
\* transferred and converted, no temporary GeoTIFF, or an exception of the
\* transfer or the conversion
NetcdfYearOutcomes == {"null", "converted", "nofile", "raise"}

\* the status messages of one pass: "raise" is an exception of the transfer
YearEvents(evs, o, y) ==
    LET exporting == Emit(evs, Event("Exporting year", y, total_years))
        downloading == Emit(exporting, Event("Downloading data for year", y, 0))
    IN  CASE o = "null" -> evs
          [] o = "converted" ->
               Emit(downloading, Event("Converting year", y, 0))
          [] o = "nofile" ->
               Emit(downloading, Event("Failed to export year", y, 0))
          [] o = "raise" ->
               Emit(exporting, Event("Error exporting year", y, 0))

\* one pass of the loop of _export_all_netcdf_enhanced
AllNetcdfYear ==
    /\ UNCHANGED cpu_count
    /\ pc = "AN_year"
    /\ \E o \in NetcdfYearOutcomes :
         /\ hist' = Note(HistAfterYear(hist, o, year), year,
                         IF o = "converted" THEN "succeeded" ELSE "failed")
         /\ IF o = "converted"
            THEN /\ disk' = disk \cup {YearNcFile(year)}
                 /\ individual_files' =
                      Append(individual_files, <<year, YearNcFile(year)>>)
                 /\ successful_exports' = successful_exports + 1
                 /\ UNCHANGED failed_exports
            ELSE /\ failed_exports' = failed_exports + 1
                 /\ UNCHANGED <<disk, individual_files, successful_exports>>
         /\ events' = YearEvents(events, o, year)
    /\ year' = year + 1
    /\ pc' = IF year + 1 > end_year THEN "AN_merge" ELSE "AN_year"
    /\ UNCHANGED <<i, driveJobs, outcome, pending, inflight, results,
                   task_count, combined, allFixed>>

Opened_all(files, ok) == [k \in 1..Len(files) |-> files[k][1]]

RECURSIVE Opened(_, _)
\* the years of the files that xr.open_dataset opened, in the order of files
Opened(files, ok) ==
    IF files = <<>> THEN <<>>
    ELSE IF Head(files)[1] \in ok
         THEN <<Head(files)[1]>> \o Opened(Tail(files), ok)
         ELSE Opened(Tail(files), ok)

RECURSIVE SortedInsert(_, _)
SortedInsert(e, files) ==
    IF files = <<>> THEN <<e>>
    ELSE IF e[1] < Head(files)[1] THEN <<e>> \o files
         ELSE <<Head(files)>> \o SortedInsert(e, Tail(files))

RECURSIVE SortedByYear(_)
\* individual_files.sort(key=lambda x: x[0]); the sort is stable
SortedByYear(files) ==
    IF files = <<>> THEN <<>>
    ELSE SortedInsert(files[Len(files)], SortedByYear(SubSeq(files, 1, Len(files) - 1)))

RECURSIVE OpenWarnings(_, _, _)
\* the warning of every file that xr.open_dataset could not open
OpenWarnings(evs, files, ok) ==
    IF files = <<>> THEN evs
    ELSE OpenWarnings(IF Head(files)[1] \in ok THEN evs
                      ELSE Emit(evs, Event("Warning: Could not include year",
                                           Head(files)[1], 0)),
                      Tail(files), ok)

\* the merge of the year files, or the hand-over to the Drive export
AllNetcdfMerge ==
    /\ UNCHANGED cpu_count
    /\ pc = "AN_merge"
    /\ IF successful_exports > 0
       THEN \E ok \in SUBSET {individual_files[k][1] :
                                 k \in 1..Len(individual_files)},
               saved \in BOOLEAN :
              LET files == SortedByYear(individual_files)
                  datasets == Opened(files, ok)
                  warned == OpenWarnings(
                      Emit(events, Event("Creating multi-year NetCDF file", 0, 0)),
                      files, ok)
              IN  /\ individual_files' = files
                  /\ IF datasets # <<>> /\ saved
                     THEN /\ combined' = datasets
                          /\ disk' = disk \cup {merged_file}
                          /\ outcome' =
                               AllNetCDFCompleted(merged_file,
                                                  successful_exports,
                                                  total_years, failed_exports,
                                                  years_folder)
                          /\ events' = Emit(warned,
                               Event("NetCDF export completed",
                                     successful_exports, total_years))
                     ELSE /\ outcome' = AllNetCDFPartial(successful_exports,
                                                         years_folder)
                          /\ events' = Emit(warned,
                               Event("NetCDF export partially completed",
                                     successful_exports, 0))
                          /\ UNCHANGED <<combined, disk>>
                  /\ pc' = "done"
                  /\ UNCHANGED <<year, task_count>>
       ELSE /\ pc' = "AN_drive"
            /\ year' = start_year
            /\ task_count' = 0
            /\ events' = Emit(Emit(events,
                 Event("NetCDF export failed. Falling back to Google Drive export", 0, 0)),
                 Event("Starting export of all years as NetCDF to Google Drive", 0, 0))
            /\ UNCHANGED <<outcome, combined, disk, individual_files>>
    /\ UNCHANGED <<i, driveJobs, hist, pending, inflight, results,
                   successful_exports, failed_exports, allFixed>>

\* the status messages of one pass of the Drive loop and of its end
DriveYearEvents(evs, o, y, started) ==
    LET passed == CASE o = "started" /\ y % 5 = 0 ->
                         Emit(evs, Event("Started export task for year", y, 0))
                     [] o = "raise" ->
                         Emit(evs, Event("Warning: Error exporting year", y, 0))
                     [] OTHER -> evs
    IN  IF y + 1 > end_year
        THEN Emit(passed, Event("Started NetCDF export tasks to Google Drive",
                                started, 0))
        ELSE passed

\* one pass of the loop of _export_all_netcdf_to_drive, with its return
\* after the last year
AllNetcdfToDrive ==
    /\ UNCHANGED cpu_count
    /\ pc = "AN_drive"
    /\ \E o \in DriveYearOutcomes :
         LET started == IF o = "started" THEN 1 ELSE 0
         IN  /\ task_count' = task_count + started
             /\ driveJobs' =
                  IF o = "started"
                  THEN Append(driveJobs,
                              DriveJob("NetCDF", AllNetcdfDriveFolder,
                                       export_name \o "_" \o ToString(year)))
                  ELSE driveJobs
             /\ IF year + 1 > end_year
                THEN /\ outcome' = AllNetCDFDriveStarted(task_count + started,
                                                         AllNetcdfDriveFolder)
                     /\ pc' = "done"
                ELSE UNCHANGED <<outcome, pc>>
             /\ hist' = HistAfterDrive(hist, o, year)
             /\ events' = DriveYearEvents(events, o, year, task_count + started)
    /\ year' = year + 1
    /\ UNCHANGED <<i, disk, pending, inflight, results,
                   successful_exports, failed_exports, individual_files,
                   combined, allFixed>>

NextAll ==
    \/ ExportAllData
    \/ BatchStart
    \/ WorkerTake
    \/ WorkerExport
    \/ BatchCollect
    \/ SequentialYear
    \/ AllGeotiffFinish
    \/ AllGeotiffToDrive
    \/ AllNetcdfYear
    \/ AllNetcdfMerge
    \/ AllNetcdfToDrive

SpecAll == InitAll /\ [][NextAll]_vars

\* both entry points, with every format
InitExport == Init \/ InitAll \/ InitCsv

NextExport == Next \/ NextAll \/ NextCsv

SpecExport == InitExport /\ [][NextExport]_vars

AllGeotiff == pc \in {"AG_batch", "AG_map", "AG_seq", "AG_finish", "AG_drive"}
                \/ (pc = "done" /\ outcome.kind \in {"AllGeoTIFFCompleted",
                                                   "AllGeoTIFFDriveStarted"})

\* the per-year export has gone through the range of years
YearsProcessed ==
    \/ pc \in {"AG_finish", "AG_drive", "AN_merge", "AN_drive"}
    \/ pc = "done" /\ outcome.kind \in {"AllGeoTIFFCompleted",
                                        "AllGeoTIFFDriveStarted",
                                        "AllNetCDFCompleted",
                                        "AllNetCDFPartial",
                                        "AllNetCDFDriveStarted"}

DriveReturned ==
    pc = "done" /\ outcome.kind \in {"AllGeoTIFFDriveStarted",
                                     "AllNetCDFDriveStarted"}

\* the strings an entry point returns
ReturnedKinds ==
    {"NoData", "GeoTIFFCompleted", "ChunkedPartial", "GeoTIFFDriveStarted",
     "NetCDFCompleted", "NetCDFDriveStarted", "ExportFailed", "NoState",
     "AllGeoTIFFCompleted", "AllGeoTIFFDriveStarted", "AllNetCDFCompleted",
     "AllNetCDFPartial", "AllNetCDFDriveStarted", "NoTemporalData",
     "CSVCompleted", "CSVChunked", "CSVFailed"}

\* every Drive submission of the request raised
EverySubmissionRaised ==
    \/ calls.submit > 0 /\ calls.submitRaised = calls.submit
    \/ hist.driveRaised > 0 /\ task_count = 0 /\ driveJobs = <<>>

(***************************************************************************)
(* C11: export_current_view and export_all_data never raise: whatever      *)
(* collaborator fails they return an outcome string, and when the Drive    *)
(* export, the last tier, fails the outcome is "Export failed: ...".       *)
(* As stated: the per-year Drive export catches the failure of each year   *)
(* and returns "Started 0 ... tasks".                                      *)
(***************************************************************************)
C11_RemoteFailureIsExportFailed ==
    pc = "done" =>
        /\ outcome.kind \in ReturnedKinds
        /\ EverySubmissionRaised => outcome = ExportFailed

\* C11 as the code has it: both entry points return an outcome string;
\* export_current_view returns "Export failed" when every Drive submission
\* raised, export_all_data returns the number of tasks it started, which is
\* 0 when every submission raised
C11_NeverRaises ==
    pc = "done" =>
        /\ outcome.kind \in ReturnedKinds
        /\ (calls.submit > 0 /\ calls.submitRaised = calls.submit)
             => outcome = ExportFailed
        /\ hist.driveRaised > 0
             => /\ DriveReturned
                /\ outcome.completed = task_count
                /\ task_count = Len(driveJobs)
                /\ task_count <= total_years - hist.driveRaised

\* every year's Drive submission raised and export_all_data returned
C11_Witness ==
    /\ pc = "done"
    /\ total_years > 1
    /\ hist.driveRaised = total_years
    /\ outcome.kind = "AllGeoTIFFDriveStarted"
    /\ outcome.completed = 0

(***************************************************************************)
(* C12: in _export_all_geotiff_enhanced completed + failed never exceeds   *)
(* the number of years and equals it when the years have been processed,   *)
(* also when the pool fails after counted batches and the sequential loop  *)
(* takes over.  The sequential loop does not reset the counters, so this   *)
(* is violated.                                                            *)
(***************************************************************************)
C12_CountersWithinTotal ==
    AllGeotiff =>
        /\ successful_exports + failed_exports <= total_years
        /\ (pc \in {"AG_finish", "AG_drive", "done"})
             => successful_exports + failed_exports = total_years

\* the jobs of the Drive loop are for different years
DriveJobsDistinct ==
    \A a, b \in 1..Len(driveJobs) :
        a # b => driveJobs[a].description # driveJobs[b].description

WatchJobs ==
    {k \in 1..Len(driveJobs) :
        driveJobs[k].description = export_name \o "_" \o ToString(watch)}

(***************************************************************************)
(* C13: when no year was exported, one Drive task is submitted for every   *)
(* year of the range, also when _get_data_for_year returns None for every  *)
(* year.  As stated: the Drive loop skips a year without an image.         *)
(***************************************************************************)
C13_RemoteJobForEveryYear ==
    DriveReturned =>
        /\ successful_exports = 0
        /\ Len(driveJobs) = total_years
        /\ outcome.completed = total_years

\* C13 as the code has it: the Drive loop passes every year once and starts
\* a task for the years that have an image and whose submission does not
\* raise; the outcome tells the number of tasks started
C13_RemoteJobPerYearWithData ==
    DriveReturned =>
        /\ successful_exports = 0
        /\ Len(hist.watchDrive) = 1
        /\ Cardinality(WatchJobs) =
             (IF hist.watchDrive = <<"started">> THEN 1 ELSE 0)
        /\ DriveJobsDistinct
        /\ Len(driveJobs) = total_years - hist.driveNulls - hist.driveRaised
        /\ task_count = Len(driveJobs)
        /\ outcome.completed = Len(driveJobs)

\* _get_data_for_year returned None for every year, in the export and in the
\* Drive loop
C13_Witness ==
    /\ DriveReturned
    /\ total_years > 1
    /\ hist.driveNulls = total_years
    /\ failed_exports >= total_years
    /\ outcome.completed = 0

(***************************************************************************)
(* C14: a year for which _get_data_for_year returns None is counted once   *)
(* as failed and no transfer is made for it, in the pool and in the        *)
(* sequential loop.  After a pool failure the sequential loop counts the   *)
(* years of the counted batches again, so this is violated.                *)
(***************************************************************************)
C14_NullYearCountedOnce ==
    (hist.nulls > 0 /\ hist.data = 0) =>
        /\ hist.transfers = 0
        /\ hist.succeeded = 0
        /\ hist.failed <= 1
        /\ YearsProcessed => hist.failed = 1

\* the years a worker holds or has returned
YearsOut == inflight \cup {r[2] : r \in results}

(***************************************************************************)
(* C15: the pool gets the years in batches of at most 5, a year of the     *)
(* next batch is given out only after every year of the batch before has   *)
(* returned, and at most min(pool size, 5) years are in flight, the pool   *)
(* size being max(1, min(cpu_count - 1, 4)).                               *)
(***************************************************************************)
C15_BatchesBounded ==
    /\ Cardinality(pending \cup YearsOut) <= 5
    /\ Cardinality(inflight) <= Min(Max(1, Min(cpu_count - 1, 4)), 5)
    /\ \A y \in pending \cup YearsOut :
         /\ y >= start_year + i
         /\ y < start_year + i + 5
    /\ pc = "AG_map" => successful_exports + failed_exports = i

\* the one year of the second batch is in flight after the first was counted
C15_Witness ==
    /\ pc = "AG_map"
    /\ i = 5
    /\ inflight = {end_year}
    /\ successful_exports + failed_exports = 5

(***************************************************************************)
(* C16: tasks that run at the same time write to different local files:    *)
(* the file of a year's export is made of the export name and the year,    *)
(* the file of a chunk of the export name and the chunk's indices.         *)
(***************************************************************************)
C16_DistinctOutputPaths ==
    /\ \A y1, y2 \in inflight : y1 # y2 => YearFile(y1) # YearFile(y2)
    /\ inflight \cap {r[2] : r \in results} = {}
    /\ inflight \cap pending = {}
    /\ pc = "AG_batch" =>
         \A a, c \in 0..(num_chunks_x - 1), b, d \in 0..(num_chunks_y - 1) :
            <<a, b>> # <<c, d>>
               => ChunkFile(export_name, a, b) # ChunkFile(export_name, c, d)

\* four workers export four years at once
C16_Witness ==
    /\ pc = "AG_map"
    /\ Cardinality(inflight) = 4

AllTypeOK ==
    /\ successful_exports \in Nat
    /\ failed_exports \in Nat
    /\ inflight \subseteq start_year..end_year

\* the source and the category a two-segment folder stands for
NormalizedPair(fmt, parts) ==
    << IF Lower(parts[1]) = "unknown" THEN "general"
       ELSE IF Upper(parts[1]) \in {"ERA5", "PRISM", "DAYMET"}
            THEN Upper(parts[1])
            ELSE parts[1],
       IF Lower(parts[2]) = "unknown" THEN DefaultCategory(fmt)
       ELSE parts[2] >>

\* folders "<source>/<category>" with both segments given
TwoSegmentFolders == {d \in [1..2 -> Segments] : d[1] # "" /\ d[2] # ""}

FloatBits == 4

MaxDegrees == 15

Abs(x) == IF x < 0 THEN 0 - x ELSE x

RECURSIVE Pow2(_)
Pow2(n) == IF n = 0 THEN 1 ELSE 2 * Pow2(n - 1)

\* a / d rounded to the nearest integer, ties to even, for a >= 0 and d > 0
RoundHalfEven(a, d) ==
    LET q == a \div d
        r == a % d
    IN  IF 2 * r < d THEN q
        ELSE IF 2 * r > d THEN q + 1
        ELSE IF q % 2 = 0 THEN q ELSE q + 1

RECURSIVE ExponentOf(_, _, _)
\* the least k with a / d < 2^FloatBits * 2^k
ExponentOf(a, d, k) ==
    IF a < Pow2(FloatBits) * Pow2(k) * d THEN k ELSE ExponentOf(a, d, k + 1)

\* the floating-point number nearest to num / den
RoundRatio(num, den) ==
    LET a == Abs(num)
        k == ExponentOf(a, den, 0)
        m == RoundHalfEven(a, den * Pow2(k))
    IN  IF num < 0 THEN 0 - (m * Pow2(k)) ELSE m * Pow2(k)

FAdd(a, b) == RoundRatio(a + b, 1)

FSub(a, b) == RoundRatio(a - b, 1)

FMul(a, b) == RoundRatio(a * b, 1)

FDiv(a, b) == RoundRatio(a, b)

\* whole degrees in quarters: every one is a floating-point number
Coordinates == {4 * d : d \in (0 - MaxDegrees)..MaxDegrees}

CoarseCoordinates == {4 * d : d \in {0 - MaxDegrees, 0, MaxDegrees}}

\* min_x, min_y, max_x, max_y of a rectangle of positive area
BoundsChoices ==
    {<<a, b, c, d>> : a \in Coordinates, b \in CoarseCoordinates,
                      c \in Coordinates, d \in CoarseCoordinates} \cap
    {r \in Coordinates \X CoarseCoordinates \X Coordinates \X CoarseCoordinates :
        r[1] < r[3] /\ r[2] < r[4]}

\* x_size = (max_x - min_x) / num_chunks_x
x_size(b) == FDiv(FSub(b[3], b[1]), num_chunks_x)

\* y_size = (max_y - min_y) / num_chunks_y
y_size(b) == FDiv(FSub(b[4], b[2]), num_chunks_y)

\* [chunk_x_min, chunk_y_min, chunk_x_max, chunk_y_max] for the loop
\* variables ci (of num_chunks_x) and cj (of num_chunks_y)
ChunkRect(b, ci, cj) ==
    << FAdd(b[1], FMul(ci, x_size(b))),
       FAdd(b[2], FMul(cj, y_size(b))),
       FAdd(b[1], FMul(ci + 1, x_size(b))),
       FAdd(b[2], FMul(cj + 1, y_size(b))) >>

\* the loop variables of the k-th pass of "for i ..: for j ..:", k from 1
SweepIndex(k) == <<(k - 1) \div num_chunks_y, (k - 1) % num_chunks_y>>

\* the chunk geometries in the order the sweep makes them
ChunkGeometries(b) ==
    [k \in 1..total_chunks |-> ChunkRect(b, SweepIndex(k)[1], SweepIndex(k)[2])]

InitGrid ==
    /\ SingleIdle
    /\ SharedIdle
    /\ AllYearsIdle
    /\ PathIdle
    /\ CsvIdle
    /\ pc = "S_bounds"
    /\ grid_bounds \in BoundsChoices
    /\ grid_chunks = <<>>

\* the geometries of one sweep
PartitionBounds ==
    /\ pc = "S_bounds"
    /\ grid_chunks' = ChunkGeometries(grid_bounds)
    /\ pc' = "S_chunks"
    /\ UNCHANGED <<grid_bounds, singleVars, allYearsVars, pathVars, csvVars,
                   format_type, has_cb, folder_name, i, disk, driveJobs,
                   outcome, events>>

NextGrid == PartitionBounds

SpecGrid == InitGrid /\ [][NextGrid]_vars

RectArea(r) == (r[3] - r[1]) * (r[4] - r[2])

RECURSIVE AreaSum(_)
AreaSum(rs) == IF rs = <<>> THEN 0 ELSE RectArea(Head(rs)) + AreaSum(Tail(rs))

\* the interiors of two rectangles have no common point
InteriorsDisjoint(r, q) ==
    \/ r[3] <= q[1] \/ q[3] <= r[1] \/ r[4] <= q[2] \/ q[4] <= r[2]

\* the chunk of the loop variables (ci, cj) among the geometries
ChunkAt(ci, cj) == grid_chunks[ci * num_chunks_y + cj + 1]

(***************************************************************************)
(* C22: the chunks tile the bounds: their outer edges are the edges of the *)
(* bounds, neighbours share the same boundary coordinate, the areas sum to *)
(* the area of the bounds and no two chunks overlap.  min + n * ((max -    *)
(* min) / n) is rounded and need not be max, so this is violated.          *)
(***************************************************************************)
C22_ChunksTileBounds ==
    pc = "S_chunks" =>
        /\ \A cj \in 0..(num_chunks_y - 1) :
             /\ ChunkAt(0, cj)[1] = grid_bounds[1]
             /\ ChunkAt(num_chunks_x - 1, cj)[3] = grid_bounds[3]
             /\ \A ci \in 0..(num_chunks_x - 2) :
                  ChunkAt(ci, cj)[3] = ChunkAt(ci + 1, cj)[1]
        /\ \A ci \in 0..(num_chunks_x - 1) :
             /\ ChunkAt(ci, 0)[2] = grid_bounds[2]
             /\ ChunkAt(ci, num_chunks_y - 1)[4] = grid_bounds[4]
             /\ \A cj \in 0..(num_chunks_y - 2) :
                  ChunkAt(ci, cj)[4] = ChunkAt(ci, cj + 1)[2]
        /\ AreaSum(grid_chunks) = RectArea(grid_bounds)
        /\ \A a, b \in 1..Len(grid_chunks) :
             a # b => InteriorsDisjoint(grid_chunks[a], grid_chunks[b])

\* a rectangle to read the meaning of the loop variables from
SampleBounds == <<0, 0, 8, 8>>

(***************************************************************************)
(* C23, as stated: the chunks are attempted row by row, a row being a Y    *)
(* subdivision and a column an X subdivision: the k-th attempt is the      *)
(* chunk of column (k-1) mod num_chunks_x in row (k-1) div num_chunks_x.   *)
(* The loop over X is the outer one, so this is violated.                  *)
(***************************************************************************)
C23_RowMajorSweep ==
    \A k \in 1..Len(chunk_files) :
        chunk_files[k] = ChunkFile(chunk_name, (k - 1) % num_chunks_x,
                                               (k - 1) \div num_chunks_x)

(***************************************************************************)
(* C23, amended: the chunks are attempted column by column, whatever the   *)
(* outcomes of the earlier chunks: the k-th attempt is the chunk of the X  *)
(* subdivision (k-1) div num_chunks_y and of the Y subdivision (k-1) mod   *)
(* num_chunks_y, and the first loop variable moves the chunk along X only, *)
(* the second along Y only.                                                *)
(***************************************************************************)
C23_ColumnMajorSweep ==
    /\ \A k \in 1..Len(chunk_files) :
         chunk_files[k] = ChunkFile(chunk_name, (k - 1) \div num_chunks_y,
                                                (k - 1) % num_chunks_y)
    /\ pc = "C_after" =>
         /\ ChunkRect(SampleBounds, 1, 0)[1] > ChunkRect(SampleBounds, 0, 0)[1]
         /\ ChunkRect(SampleBounds, 1, 0)[2] = ChunkRect(SampleBounds, 0, 0)[2]
         /\ ChunkRect(SampleBounds, 0, 1)[2] > ChunkRect(SampleBounds, 0, 0)[2]
         /\ ChunkRect(SampleBounds, 0, 1)[1] = ChunkRect(SampleBounds, 0, 0)[1]

\* a sweep is over in which a chunk export raised
C23_Witness ==
    /\ pc = "C_after"
    /\ Len(chunk_files) = total_chunks
    /\ chunks_completed < total_chunks
    /\ chunks_completed > 0

\* the years whose file the merge could not open, as the callback heard them
WarnedYears ==
    {events[k].a : k \in {n \in 1..Len(events) :
                             events[n].msg = "Warning: Could not include year"}}

\* the years with a file of their own
ExportedYears == {individual_files[k][1] : k \in 1..Len(individual_files)}

\* the all-years NetCDF export has returned from its merge step
MergeReturned ==
    /\ pc = "done"
    /\ format_type = "NetCDF"
    /\ successful_exports > 0

(***************************************************************************)
(* C24: the year axis of the combined NetCDF file is the ascending list of *)
(* the years that were exported and could be opened; a year that cannot be *)
(* opened is warned about and left out; when no year can be opened the     *)
(* outcome is the partial one that names the folder of the year files, and *)
(* no Drive job is submitted.                                              *)
(***************************************************************************)
C24_CombinedYearAxis ==
    MergeReturned =>
        /\ outcome.kind \in {"AllNetCDFCompleted", "AllNetCDFPartial"}
        /\ driveJobs = <<>>
        /\ \A k \in 1..(Len(combined) - 1) : combined[k] < combined[k + 1]
        /\ {combined[k] : k \in 1..Len(combined)} \subseteq ExportedYears
        /\ outcome.kind = "AllNetCDFCompleted" =>
             /\ combined # <<>>
             /\ merged_file \in disk
             /\ has_cb =>
                  {combined[k] : k \in 1..Len(combined)} =
                      ExportedYears \ WarnedYears
        /\ outcome.kind = "AllNetCDFPartial" =>
             /\ combined = <<>>
             /\ outcome.folder = years_folder
        /\ (has_cb /\ WarnedYears = ExportedYears) =>
             outcome.kind = "AllNetCDFPartial"

\* three years exported, the middle one cannot be opened, the others merged
C24_Witness ==
    /\ MergeReturned
    /\ has_cb
    /\ outcome.kind = "AllNetCDFCompleted"
    /\ ExportedYears = {1, 2, 3}
    /\ WarnedYears = {2}
    /\ combined = <<1, 3>>

\* no year file can be opened
C24_NoneOpenable ==
    /\ MergeReturned
    /\ has_cb
    /\ Cardinality(ExportedYears) >= 2
    /\ WarnedYears = ExportedYears

\* the attempts of the sweep whose chunk file is there
ChunksOnDisk == {k \in 1..Len(chunk_files) : chunk_files[k] \in disk}

\* the chunk exports that were reported as raising
ChunkErrorEvents ==
    {k \in 1..Len(events) : events[k].msg = "Error exporting chunk"}

(***************************************************************************)
(* C25: a sweep that ends has attempted every one of the num_chunks_x *    *)
(* num_chunks_y chunks exactly once, whatever failed before; a chunk whose *)
(* export raises is reported and the sweep goes on; chunks_completed is    *)
(* the number of chunks whose export did not raise.                        *)
(***************************************************************************)
C25_EveryChunkAttemptedOnce ==
    /\ \A a, b \in 1..Len(chunk_files) :
         a # b => chunk_files[a] # chunk_files[b]
    /\ pc \in {"C_loop", "C_wait", "C_sleep", "C_after"} =>
         chunks_completed = Cardinality(ChunksOnDisk)
    /\ pc = "C_after" =>
         /\ Len(chunk_files) = total_chunks
         /\ calls.chunkTransfer = total_chunks
         /\ \A ci \in 0..(num_chunks_x - 1), cj \in 0..(num_chunks_y - 1) :
              \E k \in 1..Len(chunk_files) :
                 chunk_files[k] = ChunkFile(chunk_name, ci, cj)
         /\ has_cb =>
              Cardinality(ChunkErrorEvents) = total_chunks - chunks_completed

\* the first chunk raised, was reported, and the last chunk was exported
C25_Witness ==
    /\ pc = "C_after"
    /\ has_cb
    /\ chunk_files[1] \notin disk
    /\ chunk_files[total_chunks] \in disk
    /\ Cardinality(ChunkErrorEvents) >= 1

\* the tier of the single GeoTIFF export that a control point belongs to
SingleTier(p) ==
    CASE p = "G_estimate" -> "Estimate"
      [] p = "G_direct" -> "DirectLocal"
      [] p \in {"C_setup", "C_loop", "C_wait", "C_sleep", "C_after"} ->
           "ChunkedLocal"
      [] p = "C_merge" -> "Merge"
      [] p = "G_drive" -> "Remote"
      [] OTHER -> "none"

\* a step from one tier into another one
TierTransition ==
    /\ SingleTier(pc) # "none"
    /\ SingleTier(pc') # "none"
    /\ SingleTier(pc') # SingleTier(pc)

\* a step of the Drive export, which calls Export.image.toDrive
RemoteSubmission == pc = "G_drive" /\ calls'.submit = calls.submit + 1

SpecLive == Init /\ [][Next]_vars /\ WF_vars(Next)

(***************************************************************************)
(* C27: the chunked export, once entered, returns to its caller: the wait  *)
(* for a chunk file ends and the sweep goes on to the next chunk, the      *)
(* merge or the Drive export.  The wait loop has no bound, so an export    *)
(* that returns without its file keeps the sweep there for ever.           *)
(***************************************************************************)
C27_ChunkedExportTerminates ==
    (pc = "C_setup") ~> (pc \in {"done", "N_after_chunk"})

(***************************************************************************)
(* C28: in one all-years GeoTIFF export the watched year is transferred at *)
(* most once and adds at most one to successful_exports + failed_exports,  *)
(* also when the pool raises after a batch and the sequential loop takes   *)
(* over.  The sequential loop starts again at start_year with the counters *)
(* of the batches, so this is violated.                                    *)
(***************************************************************************)
C28_YearAttemptedOnce ==
    AllGeotiff =>
        /\ hist.transfers <= 1
        /\ hist.succeeded + hist.failed <= 1

(***************************************************************************)
(* C29: a single NetCDF export submits Drive jobs of fileFormat NetCDF     *)
(* only, and at most one.  The chunked GeoTIFF step falls back to the      *)
(* GeoTIFF Drive export by itself (C8), and a Drive export that raises is  *)
(* entered again by the enclosing handler (C1), so this is violated.       *)
(***************************************************************************)
C29_NetcdfRemoteJobs ==
    format_type = "NetCDF" =>
        /\ \A k \in 1..Len(driveJobs) : driveJobs[k].fileFormat = "NetCDF"
        /\ Len(driveJobs) <= 1

\* the years whose file is in the folder of the year files
YearsOnDisk ==
    {y \in start_year..end_year : YearFile(y) \in disk \/ YearNcFile(y) \in disk}

(***************************************************************************)
(* C30: the all-years export submits Drive jobs only when no year was      *)
(* exported locally, successful_exports being 0 after the last year; when  *)
(* a year was exported, no Drive job is submitted and the outcome carries  *)
(* successful_exports and failed_exports.  A year that a worker exported   *)
(* before pool.map raised is not counted, and the outcome of a failed      *)
(* NetCDF merge leaves out failed_exports, so this is violated.            *)
(***************************************************************************)
C30_RemoteOnlyWhenNoneExported ==
    (AllGeotiff \/ (format_type = "NetCDF" /\ hasState)) =>
        /\ driveJobs # <<>> =>
             /\ successful_exports = 0
             /\ YearsOnDisk = {}
        /\ (pc = "done" /\ successful_exports > 0) =>
             /\ driveJobs = <<>>
             /\ outcome.completed = successful_exports
             /\ outcome.failed = failed_exports

====
